---------------------------- MODULE Spec2Model ----------------------------
(***************************************************************************)
(* A model of the arbitrary-precision integer of src/integer.hpp:         *)
(* little-endian limb vectors in base 10000, their decimal codec, the     *)
(* additive core, the three-tier multiplication, long division and the    *)
(* scalar (uint64_t) forms.                                               *)
(*                                                                         *)
(* TLC's integers are 32 bits wide, so mathematical naturals (the values  *)
(* the limb vectors stand for, and the contents of the 64-bit registers)  *)
(* are kept as canonical little-endian digit sequences in base 1000, a    *)
(* radix other than the program's, so that the value of a limb vector is  *)
(* never its own limbs.                                                   *)
(***************************************************************************)
EXTENDS Integers, Sequences, FiniteSets, TLC

VARIABLES obj, arg, txt, out, gen, pc, roots, bit_reverse

vars == <<obj, arg, txt, out, gen, pc, roots, bit_reverse>>

(***************************************************************************)
(* Program constants (struct integer, src/integer.hpp:269-277).            *)
(***************************************************************************)
SECTION == 4
BASE == 10000
DOUBLE_DIV_SECTIONS == 5
INTEGER_FFT_CUTOFF == 1500
KARATSUBA_CUTOFF == 150
FIRST_NUMBER_CHAR == 48
LAST_NUMBER_CHAR == 57

(***************************************************************************)
(* Bounds of the exploration.                                              *)
(***************************************************************************)
\* how many operations one object goes through
MaxGen == 2
\* how far a floating-point quotient estimate may be from the true quotient
EstErr == 1
\* the largest shift count
\* how far from the quotient digit the estimates of SpecDiv go: every value
\* within EstWide of it, and the two values EstFar away
EstWide == 3
EstFar == 100
\* how many calls of FFT::multiply a run of SpecFFT makes
MaxCalls == 3
\* the operands of SpecMul come in the fillings 0..MaxFill
MaxFill == 1
MaxShift == 2

(***************************************************************************)
(* Helpers.                                                                *)
(***************************************************************************)
Max(p, q) == IF p > q THEN p ELSE q
Min(p, q) == IF p < q THEN p ELSE q

\* TLC keeps [i \in 1..n |-> e] as an unevaluated function; SubSeq makes it a
\* sequence proper, which is what every constructor below hands on.
Zeros(n) == SubSeq([i \in 1..n |-> 0], 1, n)

(***************************************************************************)
(* Every function of the program that loops or calls another is entered    *)
(* through Call(f, x), f naming the function and x holding its arguments;  *)
(* the definition named after f with the suffix Body is its code.  A call  *)
(* written trim_check(v) below is Call("trim_check", <<v>>).  Entering     *)
(* every function at this one recursive operator keeps the expression TLC  *)
(* builds for an action as large as the functions it names, not as large   *)
(* as the tree of all their calls.                                         *)
(*                                                                         *)
(* A loop  while (test) turn;  is While(l, e, s, fuel): l names the loop,  *)
(* e holds what the loop only reads, s is the state its turns change, and  *)
(* fuel is a number of turns within which it ends.  The definitions named  *)
(* after the loop with the suffixes Test and Turn (or Step) are its        *)
(* condition and its body.                                                 *)
(***************************************************************************)
RECURSIVE Call(_, _)

While(l, e, s, fuel) == Call("While", <<l, e, s, fuel>>)

checked_add(values, position, add) == Call("checked_add", <<values, position, add>>)
U64Wrap(u) == Call("U64Wrap", <<u>>)
NatCmp(u, v) == Call("NatCmp", <<u, v>>)
NatDivModSmall(u, k) == Call("NatDivModSmall", <<u, k>>)
NatNorm(s) == Call("NatNorm", <<s>>)
NatAdd(u, v) == Call("NatAdd", <<u, v>>)
NatSub(u, v) == Call("NatSub", <<u, v>>)
NatScale(u, k) == Call("NatScale", <<u, k>>)
NatMul(u, v) == Call("NatMul", <<u, v>>)
NatQuotDigit(t, d) == Call("NatQuotDigit", <<t, d>>)
NatDivMod(u, d) == Call("NatDivMod", <<u, d>>)
trim_check(values) == Call("trim_check", <<values>>)
init(x0) == Call("init", <<x0>>)
IntegerOfString(str) == Call("IntegerOfString", <<str>>)
ToU64(values) == Call("ToU64", <<values>>)
to_string(values) == Call("to_string", <<values>>)
compare(values, other) == Call("compare", <<values, other>>)
OpPlusAssign(values, other) == Call("OpPlusAssign", <<values, other>>)
OpMinusAssign(values, other) == Call("OpMinusAssign", <<values, other>>)
FFTMultiply(left, right) == Call("FFTMultiply", <<left, right>>)
TimesFFT(a, b) == Call("TimesFFT", <<a, b>>)
SchoolbookColumn(a, b, index_sum, value, carry) == Call("SchoolbookColumn", <<a, b, index_sum, value, carry>>)
TimesSchoolbook(a, b) == Call("TimesSchoolbook", <<a, b>>)
KaratsubaCombine(x, z, w, mid) == Call("KaratsubaCombine", <<x, z, w, mid>>)
OpTimes(a, b) == Call("OpTimes", <<a, b>>)
OpTimesU64(values, scalar) == Call("OpTimesU64", <<values, scalar>>)
Value(values) == Call("Value", <<values>>)
EstimateDiv(chunk, other, e) == Call("EstimateDiv", <<chunk, other, e>>)
CorrectDown(chunk, other, t0) == Call("CorrectDown", <<chunk, other, t0>>)
CorrectUp(chunk, other, t0) == Call("CorrectUp", <<chunk, other, t0>>)
DivModStep(other, s, e) == Call("DivModStep", <<other, s, e>>)
DivMod(values, other, err) == Call("DivMod", <<values, other, err>>)
DivModU64(values, denominator, err) == Call("DivModU64", <<values, denominator, err>>)
OpModU64(values, denominator, err) == Call("OpModU64", <<values, denominator, err>>)
Canonical(str) == Call("Canonical", <<str>>)
DecValue(str) == Call("DecValue", <<str>>)

(***************************************************************************)
(* Naturals of any size: little-endian digit sequences in base NB with no  *)
(* most-significant zero digit; zero is the empty sequence.                *)
(***************************************************************************)
NB == 10 * 10 * 10

\* the largest integer TLC holds
IntMax == 2 * 1073741823 + 1

NatNormTest(t) == Len(t) > 0 /\ t[Len(t)] = 0
NatNormTurn(t) == SubSeq(t, 1, Len(t) - 1)
NatNormBody(s) == While("NatNorm", <<>>, s, Len(s))

RECURSIVE NatOfInt(_)
NatOfInt(k) == IF k = 0 THEN <<>> ELSE <<k % NB>> \o NatOfInt(k \div NB)

NatFitsInt(u) == Len(u) <= 3

IntOfNat(u) ==
  (IF Len(u) >= 1 THEN u[1] ELSE 0)
  + (IF Len(u) >= 2 THEN NB * u[2] ELSE 0)
  + (IF Len(u) >= 3 THEN NB * NB * u[3] ELSE 0)

NatDigit(u, i) == IF i <= Len(u) THEN u[i] ELSE 0

\* -1, 0 or +1 as u <, =, > v
NatCmpTest(u, v, i) == i >= 1 /\ u[i] = v[i]
NatCmpTurn(i) == i - 1
NatCmpBody(u, v) ==
  LET At(top) == IF top = 0 THEN 0 ELSE IF u[top] < v[top] THEN -1 ELSE 1
  IN  IF NatFitsInt(u) /\ NatFitsInt(v)
      THEN (IF IntOfNat(u) < IntOfNat(v) THEN -1
            ELSE IF IntOfNat(u) = IntOfNat(v) THEN 0 ELSE 1)
      ELSE IF Len(u) # Len(v) THEN (IF Len(u) < Len(v) THEN -1 ELSE 1)
      ELSE At(While("NatCmp", <<u, v>>, Len(u), Len(u)))

NatLess(u, v) == NatCmp(u, v) < 0
NatLeq(u, v) == NatCmp(u, v) <= 0

\* u + k for an int k >= 0 (k below 2 * 10^9)
RECURSIVE NatAddInt(_, _)
NatAddInt(u, k) ==
  IF k = 0 THEN u
  ELSE IF u = <<>> THEN NatOfInt(k)
  ELSE LET t == u[1] + (k % NB)
       IN  <<t % NB>> \o NatAddInt(Tail(u), (k \div NB) + (t \div NB))

\* one digit more of a sum, a product or a carry pass: t is the digit's
\* value with the carry in
NatCarry(s, t) == [i |-> s.i + 1, carry |-> t \div NB, acc |-> Append(s.acc, t % NB)]

NatAddTest(n, s) == s.i <= n
NatAddTurn(u, v, s) == NatCarry(s, NatDigit(u, s.i) + NatDigit(v, s.i) + s.carry)
NatAddBody(u, v) ==
  LET n == Max(Len(u), Len(v))
      Done(r) == IF r.carry > 0 THEN Append(r.acc, r.carry) ELSE r.acc
  IN  IF NatFitsInt(u) /\ NatFitsInt(v) THEN NatOfInt(IntOfNat(u) + IntOfNat(v))
      ELSE Done(While("NatAdd", <<u, v, n>>, [i |-> 1, carry |-> 0, acc |-> <<>>], n))

\* u - v for u >= v
NatSubTurn(u, v, s) ==
  LET t == u[s.i] - NatDigit(v, s.i) - s.borrow
  IN  [i |-> s.i + 1, borrow |-> IF t < 0 THEN 1 ELSE 0,
       acc |-> Append(s.acc, IF t < 0 THEN t + NB ELSE t)]
NatSubBody(u, v) ==
  IF NatFitsInt(u) /\ NatFitsInt(v) THEN NatOfInt(IntOfNat(u) - IntOfNat(v))
  ELSE NatNorm(While("NatSub", <<u, v, Len(u)>>,
                     [i |-> 1, borrow |-> 0, acc |-> <<>>], Len(u)).acc)

\* u * k for an int 0 <= k <= 10^6
NatScaleTurn(u, k, s) == NatCarry(s, u[s.i] * k + s.carry)
NatScaleBody(u, k) ==
  LET Done(r) == r.acc \o NatOfInt(r.carry)
  IN  IF k = 0 THEN <<>>
      ELSE IF Len(u) <= 1 \/ (NatFitsInt(u) /\ IntOfNat(u) <= IntMax \div k)
           THEN NatOfInt(IntOfNat(u) * k)
      ELSE Done(While("NatScale", <<u, k, Len(u)>>,
                      [i |-> 1, carry |-> 0, acc |-> <<>>], Len(u)))

\* u * NB^t
NatShift(u, t) == IF u = <<>> THEN <<>> ELSE Zeros(t) \o u

\* the sum of u[i] * v[k - i + 1] for i in lo..hi
RECURSIVE NatColumn(_, _, _, _, _)
NatColumn(u, v, k, lo, hi) ==
  IF lo > hi THEN 0
  ELSE IF lo = hi THEN u[lo] * v[k - lo + 1]
  ELSE NatColumn(u, v, k, lo, (lo + hi) \div 2)
       + NatColumn(u, v, k, ((lo + hi) \div 2) + 1, hi)

\* u * v: the column sums of the digit products, then the carries.  A column
\* sum stays below 2^31 while the shorter operand has at most 2150 digits.
NatMulTurn(cols, s) == NatCarry(s, cols[s.i] + s.carry)
NatMulBody(u, v) ==
  LET n == Len(u)
      m == Len(v)
      Done(r) == NatNorm(r.acc \o NatOfInt(r.carry))
  IN  IF n = 0 \/ m = 0 THEN <<>>
      ELSE Done(While("NatMul",
                      <<SubSeq([k \in 1..(n + m - 1) |->
                                  NatColumn(u, v, k, Max(1, k - m + 1), Min(n, k))],
                               1, n + m - 1), n + m - 1>>,
                      [i |-> 1, carry |-> 0, acc |-> <<>>], n + m - 1))

\* <<u div k, u mod k>> for an int 1 <= k <= 10^6; the remainder is an int
NatDivModSmallTest(s) == s.i >= 1
NatDivModSmallTurn(u, k, s) ==
  LET t == s.rem * NB + u[s.i]
  IN  [i |-> s.i - 1, rem |-> t % k, acc |-> [s.acc EXCEPT ![s.i] = t \div k]]
NatDivModSmallBody(u, k) ==
  LET Done(r) == <<NatNorm(r.acc), r.rem>>
  IN  IF NatFitsInt(u) THEN <<NatOfInt(IntOfNat(u) \div k), IntOfNat(u) % k>>
      ELSE Done(While("NatDivModSmall", <<u, k>>,
                      [i |-> Len(u), rem |-> 0, acc |-> Zeros(Len(u))], Len(u)))

\* the digit t div d for d of three digits or more and t < d * NB: the
\* quotient of the leading digits is never below it, and is lowered to it
NatQuotDigitTest(t, d, q) == q > 0 /\ NatLess(t, NatScale(d, q))
NatQuotDigitTurn(q) == q - 1
NatQuotDigitBody(t, d) ==
  LET L == Len(d)
      dt == d[L] * NB + d[L - 1]
      tt == NatDigit(t, L + 1) * NB * NB + NatDigit(t, L) * NB + NatDigit(t, L - 1)
  IN  While("NatQuotDigit", <<t, d>>, Min(tt \div dt, NB - 1), NB)

\* <<u div d, u mod d>> for d > 0: long division, one base-NB digit a step
NatDivModTurn(u, d, s) ==
  LET Digit(t, q) == [i |-> s.i - 1, rem |-> NatSub(t, NatScale(d, q)),
                      acc |-> [s.acc EXCEPT ![s.i] = q]]
      Step(t) == Digit(t, NatQuotDigit(t, d))
  IN  Step(NatNorm(<<u[s.i]>> \o s.rem))
NatDivModBody(u, d) ==
  LET Done(r) == <<NatNorm(r.acc), r.rem>>
      Small(qr) == <<qr[1], NatOfInt(qr[2])>>
  IN  IF NatFitsInt(u) /\ NatFitsInt(d)
      THEN <<NatOfInt(IntOfNat(u) \div IntOfNat(d)), NatOfInt(IntOfNat(u) % IntOfNat(d))>>
      ELSE IF Len(d) <= 2 THEN Small(NatDivModSmall(u, IntOfNat(d)))
      ELSE Done(While("NatDivMod", <<u, d>>,
                      [i |-> Len(u), rem |-> <<>>, acc |-> Zeros(Len(u))], Len(u)))

RECURSIVE Pow(_, _)
Pow(b, e) == IF e = 0 THEN 1 ELSE b * Pow(b, e - 1)

(***************************************************************************)
(* The machine integers.  A uint64_t is a natural below 2^64 and every     *)
(* 64-bit operation wraps; a value_t (uint16_t) is an int below 2^16.      *)
(***************************************************************************)
UINT64_MAX == <<615, 551, 709, 73, 744, 446, 18>>
TwoTo64 == NatAddInt(UINT64_MAX, 1)

U64WrapBody(u) == IF NatLeq(u, UINT64_MAX) THEN u ELSE NatDivMod(u, TwoTo64)[2]

\* a cutoff no uint64_t reaches: the scalar forms never fall back
NoCutoff == TwoTo64

U64_BOUND == NatSub(UINT64_MAX, NatOfInt(BASE * BASE))
BASE_OVERFLOW_CUTOFF == NatDivModSmall(UINT64_MAX, BASE)[1]

\* static_cast<value_t>(k) of an int k, of a 64-bit u
ValueT(k) == k % 65536
ValueTOfU64(u) == NatDivModSmall(u, 65536)[2]

(***************************************************************************)
(* struct integer: the limb vector `values`, least significant limb first. *)
(* values[i] of the source is v[i + 1] here.  An operation that can fail   *)
(* an assert returns [ok, val]: ok = FALSE is the abort.                   *)
(***************************************************************************)
Ok(v) == [ok |-> TRUE, val |-> v]
Abort == [ok |-> FALSE, val |-> <<>>]

\* a trim_check that pops nothing
trim_check_none(values) == IF values = <<>> THEN <<0>> ELSE values

\* while (values.size() > 1 && values.back() == 0) values.pop_back();
trim_check_test(v) == Len(v) > 1 /\ v[Len(v)] = 0
trim_check_turn(v) == SubSeq(v, 1, Len(v) - 1)

trim_check_body(values) ==
  LET OrZero(popped) == IF popped = <<>> THEN <<0>> ELSE popped
  IN  OrZero(While("trim_check", <<>>, values, Len(values)))

\* values.resize(n, 0)
Resize(values, n) ==
  IF n <= Len(values) THEN SubSeq(values, 1, n) ELSE values \o Zeros(n - Len(values))

\* `add` is the uint64_t argument
checked_add_body(values, position, add) ==
  LET Add(grown) ==
        [grown EXCEPT ![position + 1] = ValueTOfU64(U64Wrap(NatAddInt(add, grown[position + 1])))]
  IN  Add(IF position >= Len(values) THEN Resize(values, position + 1) ELSE values)

\* init(x): do { checked_add(values.size(), x % BASE); x /= BASE; } while (x > 0);
init_test(s) == s.x # <<>>
init_turn(s) ==
  LET Push(qr) == [x |-> qr[1],
                   values |-> checked_add(s.values, Len(s.values), NatOfInt(qr[2]))]
  IN  Push(NatDivModSmall(s.x, BASE))

init_body(x0) ==
  While("init", <<>>, init_turn([x |-> x0, values |-> <<>>]), Len(x0)).values

\* integer(const uint64_t x = 0)
IntegerOfU64(x0) == init(x0)

\* a turn of the constructor's loop without its assert
FromStringStepUnchecked(str, s) ==
  LET c == str[s.i + 1]
      vals == [s.values EXCEPT ![s.index + 1] =
                 ValueT(s.values[s.index + 1] + s.p10 * (c - FIRST_NUMBER_CHAR))]
  IN  IF s.counter + 1 >= SECTION
      THEN [i |-> s.i - 1, counter |-> 0, index |-> s.index + 1, p10 |-> 1,
            values |-> vals, ok |-> TRUE]
      ELSE [i |-> s.i - 1, counter |-> s.counter + 1, index |-> s.index,
            p10 |-> ValueT(10 * s.p10), values |-> vals, ok |-> TRUE]

\* one turn of the constructor's loop over str, right to left
FromStringStep(str, s) ==
  LET c == str[s.i + 1]
      Next(vals) ==
        IF s.counter + 1 >= SECTION
        THEN [i |-> s.i - 1, counter |-> 0, index |-> s.index + 1, p10 |-> 1,
              values |-> vals, ok |-> TRUE]
        ELSE [i |-> s.i - 1, counter |-> s.counter + 1, index |-> s.index,
              p10 |-> ValueT(10 * s.p10), values |-> vals, ok |-> TRUE]
  IN  IF ~(FIRST_NUMBER_CHAR <= c /\ c <= LAST_NUMBER_CHAR)
      THEN [s EXCEPT !.ok = FALSE]
      ELSE Next([s.values EXCEPT ![s.index + 1] =
                   ValueT(s.values[s.index + 1] + s.p10 * (c - FIRST_NUMBER_CHAR))])

\* the constructor's loop: the state it ends in, ok = FALSE where the assert
\* failed, i then the position of the character that failed it
FromStringTest(s) == s.ok /\ s.i >= 0
FromStringScan(str) ==
  LET len == Len(str)
      num_values == Max((len + SECTION - 1) \div SECTION, 1)
  IN  While("integer(string)", str,
            [i |-> len - 1, counter |-> 0, index |-> 0, p10 |-> 1,
             values |-> Zeros(num_values), ok |-> TRUE], len)

\* integer(const string &str); a string is the sequence of its character codes
IntegerOfStringBody(str) ==
  LET Done(r) == IF r.ok THEN Ok(trim_check(r.values)) ELSE Abort
  IN  Done(FromStringScan(str))

\* a turn of the conversion in a register that never wraps
ToU64TurnWide(values, s) ==
  [i |-> s.i - 1, v |-> NatAddInt(NatScale(s.v, BASE), values[s.i + 1])]

\* explicit operator uint64_t()
ToU64Test(s) == s.i >= 0
ToU64Turn(values, s) ==
  [i |-> s.i - 1,
   v |-> U64Wrap(NatAddInt(U64Wrap(NatScale(s.v, BASE)), values[s.i + 1]))]
ToU64Body(values) ==
  While("uint64_t", values, [i |-> Len(values) - 1, v |-> <<>>], Len(values)).v

\* the SECTION characters one limb contributes, least significant digit first
LimbChars(v) ==
  SubSeq([i \in 1..SECTION |-> FIRST_NUMBER_CHAR + ((v \div Pow(10, i - 1)) % 10)],
         1, SECTION)

Reverse(s) == SubSeq([i \in 1..Len(s) |-> s[Len(s) + 1 - i]], 1, Len(s))

\* the loop over the limbs, and the loop that pops the trailing '0's
ToStringLimbTest(values, s) == s.k <= Len(values)
ToStringLimbTurn(values, s) ==
  [k |-> s.k + 1, result |-> s.result \o LimbChars(values[s.k])]
\* a to_string that pops nothing
ToStringPopNever(r) == FALSE
ToStringPopTest(r) == Len(r) > 1 /\ r[Len(r)] = FIRST_NUMBER_CHAR
ToStringPopTurn(r) == SubSeq(r, 1, Len(r) - 1)

to_string_body(values) ==
  LET Strip(emitted) == Reverse(While("to_string.pop", <<>>, emitted, Len(emitted)))
  IN  Strip(While("to_string.limbs", values, [k |-> 1, result |-> <<>>],
                  Len(values)).result)

\* the loop goes down the limbs while they are equal
compare_test(values, other, i) == i >= 0 /\ values[i + 1] = other[i + 1]
compare_turn(i) == i - 1

compare_body(values, other) ==
  LET n == Len(values)
      m == Len(other)
      At(stop) == IF stop < 0 THEN 0
                  ELSE IF values[stop + 1] < other[stop + 1] THEN -1 ELSE 1
  IN  IF n # m THEN (IF n < m THEN -1 ELSE 1)
      ELSE At(While("compare", <<values, other>>, n - 1, n))

\* an operator<= that is operator<
OpLessEqStrict(a, b) == compare(a, b) < 0

OpLess(a, b) == compare(a, b) < 0
OpGreater(a, b) == compare(a, b) > 0
OpLessEq(a, b) == compare(a, b) <= 0
OpGreaterEq(a, b) == compare(a, b) >= 0
OpEq(a, b) == compare(a, b) = 0
OpNotEq(a, b) == compare(a, b) # 0

\* operator<< without its trim_check
OpShlNoTrim(values, p) ==
  SubSeq([j \in 1..(Len(values) + p) |-> IF j <= p THEN 0 ELSE values[j - p]],
         1, Len(values) + p)

\* operator<<(p), p >= 0 (asserted)
OpShl(values, p) ==
  LET n == Len(values)
  IN  trim_check(SubSeq([j \in 1..(n + p) |-> IF j <= p THEN 0 ELSE values[j - p]],
                        1, n + p))

\* a range that copies from limb 0 whatever a is
RangeFromZero(values, a, b0) ==
  LET b == IF b0 = -1 THEN Len(values) ELSE b0
  IN  trim_check(SubSeq([i \in 1..(b - a) |-> values[i]], 1, b - a))

\* range(a, b) past its assert; b = -1 stands for values.size()
range(values, a, b0) ==
  LET b == IF b0 = -1 THEN Len(values) ELSE b0
  IN  trim_check(SubSeq([i \in 1..(b - a) |-> values[i + a]], 1, b - a))

\* range(a, b) with its assert(a <= b)
OpRange(values, a, b0) ==
  IF a <= (IF b0 = -1 THEN Len(values) ELSE b0) THEN Ok(range(values, a, b0)) ELSE Abort

\* a turn of operator+= that reduces the limb and forgets the carry
PlusAssignStepDropCarry(n, other, s) ==
  LET Carry(added) ==
        [i |-> s.i + 1, carry |-> 0,
         values |-> [added EXCEPT ![s.i + 1] =
                        IF added[s.i + 1] >= BASE THEN ValueT(added[s.i + 1] - BASE)
                        ELSE added[s.i + 1]]]
  IN  Carry(checked_add(s.values, s.i,
                        NatOfInt((IF s.i < n THEN other[s.i + 1] ELSE 0) + s.carry)))

\* one turn of operator+='s loop; n is other.values.size() as read before the
\* loop, `other` the operand's limbs as they are in this turn
PlusAssignStep(n, other, s) ==
  LET Carry(added) ==
        IF added[s.i + 1] >= BASE
        THEN [i |-> s.i + 1, carry |-> 1,
              values |-> [added EXCEPT ![s.i + 1] = ValueT(added[s.i + 1] - BASE)]]
        ELSE [i |-> s.i + 1, carry |-> 0, values |-> added]
  IN  Carry(checked_add(s.values, s.i,
                        NatOfInt((IF s.i < n THEN other[s.i + 1] ELSE 0) + s.carry)))

\* i < n || carry > 0, of operator+= and of operator-=
AssignTest(n, s) == s.i < n \/ s.carry > 0

OpPlusAssignBody(values, other) ==
  trim_check(While("+=", <<Len(other), other>>, [i |-> 0, carry |-> 0, values |-> values],
                   Len(values) + Len(other) + 2).values)

\* a += a: `other` is *this, so each turn reads the limbs as the turns before
\* have left them
PlusAssignSelfStep(n, s) == PlusAssignStep(n, s.values, s)
OpPlusAssignSelf(values) ==
  trim_check(While("+=self", Len(values), [i |-> 0, carry |-> 0, values |-> values],
                   2 * Len(values) + 2).values)

\* a turn of operator-= that forgets the borrow
MinusAssignStepDropBorrow(n, other, s) ==
  LET subtract == ValueT(IF s.i < n THEN other[s.i + 1] ELSE 0)
      cur == s.values[s.i + 1]
  IN  [i |-> s.i + 1, carry |-> 0,
       values |-> [s.values EXCEPT ![s.i + 1] =
                     ValueT(IF cur < subtract THEN cur + BASE - subtract ELSE cur - subtract)]]

\* one turn of operator-='s loop, n and `other` as in PlusAssignStep
MinusAssignStep(n, other, s) ==
  LET subtract == ValueT((IF s.i < n THEN other[s.i + 1] ELSE 0) + s.carry)
      cur == s.values[s.i + 1]
  IN  IF cur < subtract
      THEN [i |-> s.i + 1, carry |-> 1,
            values |-> [s.values EXCEPT ![s.i + 1] = ValueT(cur + BASE - subtract)]]
      ELSE [i |-> s.i + 1, carry |-> 0,
            values |-> [s.values EXCEPT ![s.i + 1] = ValueT(cur - subtract)]]

\* a build whose assert checks nothing
MinusAssignPreNone(values, other) == TRUE

\* assert(*this >= other)
MinusAssignPre(values, other) == OpGreaterEq(values, other)

OpMinusAssignBody(values, other) ==
  IF ~MinusAssignPre(values, other) THEN Abort
  ELSE Ok(trim_check(While("-=", <<Len(other), other>>,
                           [i |-> 0, carry |-> 0, values |-> values], Len(values)).values))

\* a -= a
MinusAssignSelfStep(n, s) == MinusAssignStep(n, s.values, s)
OpMinusAssignSelf(values) ==
  IF ~MinusAssignPre(values, values) THEN Abort
  ELSE Ok(trim_check(While("-=self", Len(values),
                           [i |-> 0, carry |-> 0, values |-> values], Len(values)).values))

OpPlus(a, b) == OpPlusAssign(a, b)
OpMinus(a, b) == OpMinusAssign(a, b)

(***************************************************************************)
(* namespace FFT: the two tables that outlive a call.  The doubles are not *)
(* computed: a root is <<k, d>> for polar(ONE, 2 * PI * k / d), and <<0, 0>> *)
(* is the complex {0, 0}.  Index i of the source is i + 1 here.            *)
(***************************************************************************)
\* inline vector<complex<float_t> > roots = {{0, 0}, {1, 0}};
InitialRoots == <<<<0, 0>>, <<0, 1>>>>

\* __builtin_ctz of a power of two
RECURSIVE Ctz(_)
Ctz(n) == IF n <= 1 THEN 0 ELSE 1 + Ctz(n \div 2)

\* the smallest power of two that is at least n
RECURSIVE PowerTwoFrom(_, _)
PowerTwoFrom(p, n) == IF p >= n THEN p ELSE PowerTwoFrom(2 * p, n)
round_up_power_two(n) == PowerTwoFrom(1, n)

\* bit_reverse[i] = bit_reverse[i >> 1] >> 1 | (i & 1) << length - 1, with
\* bit_reverse[0] = 0; the two sides of the | have no bit in common
\* `top` is 1 << length - 1
RECURSIVE BitReverseFrom(_, _)
BitReverseFrom(i, top) ==
  IF i = 0 THEN 0 ELSE (BitReverseFrom(i \div 2, top) \div 2) + (i % 2) * top
BitReverseAt(i, length) == IF i = 0 THEN 0 ELSE BitReverseFrom(i, Pow(2, length - 1))

\* a bit_reorder that keeps a table that is long enough
bit_reorder_longer(table, n) ==
  IF Len(table) < n
  THEN SubSeq([j \in 1..n |-> BitReverseAt(j - 1, Ctz(n))], 1, n)
  ELSE table

\* bit_reorder(n, values), what it leaves in bit_reverse: the table is built
\* again whenever its size is not n
bit_reorder(table, n) ==
  IF Len(table) # n
  THEN SubSeq([j \in 1..n |-> BitReverseAt(j - 1, Ctz(n))], 1, n)
  ELSE table

\* one turn of prepare_roots' while loop: the for loop fills the indices
\* from 1 << length to (1 << length + 1) - 1
prepare_roots_test(n, s) == Pow(2, s.length) < n
prepare_roots_turn(s) ==
  LET lo == Pow(2, s.length)
      At(k) == IF k < lo \/ k >= 2 * lo THEN s.roots[k + 1]
               ELSE IF k % 2 = 0 THEN s.roots[(k \div 2) + 1]
               ELSE <<k - lo, 2 * lo>>
  IN  [length |-> s.length + 1,
       roots |-> SubSeq([j \in 1..Len(s.roots) |-> At(j - 1)], 1, Len(s.roots))]

\* a prepare_roots that resizes the table to n whatever its size
prepare_roots_resize(table, n) ==
  IF Len(table) = n THEN table
  ELSE IF Len(table) > n THEN SubSeq(table, 1, n)
  ELSE While("prepare_roots", n,
             [length |-> Ctz(Len(table)),
              roots |-> table \o SubSeq([j \in 1..(n - Len(table)) |-> <<0, 0>>],
                                        1, n - Len(table))], 32).roots

\* prepare_roots(n), what it leaves in roots
prepare_roots(table, n) ==
  IF Len(table) >= n THEN table
  ELSE While("prepare_roots", n,
             [length |-> Ctz(Len(table)),
              roots |-> table \o SubSeq([j \in 1..(n - Len(table)) |-> <<0, 0>>],
                                        1, n - Len(table))], 32).roots

\* which branch FFT::multiply takes for vectors of n and m elements, `same`
\* when left == right: "none" for an empty vector, "direct" for the double
\* loops, "square" and "multiply" for the transforms.  The costs are
\* compared as integers: 0.4 * n * n < 2.0 * N * (ctz(N) + 3) and
\* 0.55 * n * m < 1.5 * N * (ctz(N) + 3).
MultiplyBranch(n, m, same) ==
  IF n = 0 \/ m = 0 THEN "none"
  ELSE IF same
       THEN (IF 4 * n * n < 20 * round_up_power_two(n) * (Ctz(round_up_power_two(n)) + 3)
             THEN "direct" ELSE "square")
  ELSE IF 11 * n * m < 30 * round_up_power_two(n + m - 1)
                          * (Ctz(round_up_power_two(n + m - 1)) + 3)
       THEN "direct" ELSE "multiply"

\* the N of the call
TransformSize(n, m, same) ==
  IF same THEN round_up_power_two(n) ELSE round_up_power_two(n + m - 1)

\* <<roots, bit_reverse>> as a whole call of FFT::multiply leaves them:
\* multiply calls fft_iterative(N) and, in invert_fft, fft_iterative(N / 2);
\* square calls prepare_roots(2 * N) and fft_iterative(N) twice
MultiplyCaches(r, t, n, m, same) ==
  LET N == TransformSize(n, m, same)
      branch == MultiplyBranch(n, m, same)
  IN  IF branch = "multiply"
      THEN <<prepare_roots(r, N), bit_reorder(bit_reorder(t, N), N \div 2)>>
      ELSE IF branch = "square"
           THEN <<prepare_roots(r, 2 * N), bit_reorder(t, N)>>
      ELSE <<r, t>>

(***************************************************************************)
(* Multiplication.                                                         *)
(***************************************************************************)
U64Add(u, v) == U64Wrap(NatAdd(u, v))
U64DivBase(u) == NatDivModSmall(u, BASE)[1]
U64ModBase(u) == NatOfInt(NatDivModSmall(u, BASE)[2])

\* <<h, l>> with h * BASE + l the sum of left[i] * right[k - i] over i in lo..hi
\* (0-based i): the two halves of each product are summed apart, so that no
\* sum leaves TLC's integers.
RECURSIVE ProductSum(_, _, _, _, _)
ProductSum(left, right, k, lo, hi) ==
  IF lo > hi THEN <<0, 0>>
  ELSE IF lo = hi
       THEN LET p == left[lo + 1] * right[k - lo + 1] IN <<p \div BASE, p % BASE>>
  ELSE LET mid == (lo + hi) \div 2
           l == ProductSum(left, right, k, lo, mid)
           r == ProductSum(left, right, k, mid + 1, hi)
       IN  <<l[1] + r[1], l[2] + r[2]>>

\* FFT::multiply<uint64_t>(left, right): the linear convolution of the two
\* limb vectors, n + m - 1 coefficients of type uint64_t.  The transform
\* works in doubles and rounds each coefficient to the nearest integer; the
\* coefficients are taken here as what the rounding is to recover, the
\* sums result[i + j] += left[i] * right[j] of the function's direct branch.
FFTMultiplyBody(left, right) ==
  LET n == Len(left)
      m == Len(right)
      Coef(k) == LET hl == ProductSum(left, right, k, Max(0, k - (m - 1)), Min(n - 1, k))
                 IN  U64Wrap(NatAddInt(NatScale(NatOfInt(hl[1]), BASE), hl[2]))
  IN  IF n = 0 \/ m = 0 THEN <<>>
      ELSE SubSeq([k \in 1..(n + m - 1) |-> Coef(k - 1)], 1, n + m - 1)

\* a turn of the carry loop that forgets the carry
FFTCarryStepNoCarry(multiplication, s) ==
  LET N == Len(multiplication)
      value == IF s.i < N THEN multiplication[s.i + 1] ELSE <<>>
  IN  [i |-> s.i + 1, carry |-> <<>>,
       values |-> checked_add(s.values, s.i, U64ModBase(value))]

\* one turn of the carry loop that follows the convolution
FFTCarryStep(multiplication, s) ==
  LET N == Len(multiplication)
      value == U64Add(IF s.i < N THEN multiplication[s.i + 1] ELSE <<>>, s.carry)
  IN  [i |-> s.i + 1, carry |-> U64DivBase(value),
       values |-> checked_add(s.values, s.i, U64ModBase(value))]

\* i < n || carry > 0 with a 64-bit carry: the carry loops of the products
CarryTest(n, s) == s.i < n \/ s.carry # <<>>

TimesFFTBody(a, b) ==
  LET Carries(multiplication) ==
        While("fft.carry", multiplication,
              [i |-> 0, carry |-> <<>>, values |-> IntegerOfU64(<<>>)],
              Len(multiplication) + 8)
  IN  trim_check(Carries(FFTMultiply(a, b)).values)

\* one turn of the schoolbook branch's inner loop
SchoolbookInnerStep(a, b, index_sum, s) ==
  LET value == U64Wrap(NatAddInt(s.value, a[s.i + 1] * b[index_sum - s.i + 1]))
  IN  IF NatLess(U64_BOUND, value)
      THEN [i |-> s.i + 1, value |-> U64ModBase(value),
            carry |-> U64Add(s.carry, U64DivBase(value))]
      ELSE [i |-> s.i + 1, value |-> value, carry |-> s.carry]

\* the inner loop of the schoolbook branch for the column index_sum, entered
\* with `value` and `carry`: [value, carry] when it ends.  The running sums
\* only grow, so when the whole column's sum stays within U64_BOUND no turn
\* of the loop reduces, and the loop leaves value plus the column's sum;
\* otherwise the loop is run turn by turn.
SchoolbookColumnBody(a, b, index_sum, value, carry) ==
  LET n == Len(a)
      m == Len(b)
      first == Max(0, index_sum - (m - 1))
      last == Min(n - 1, index_sum)
      Whole(hl) == NatAdd(value, NatAddInt(NatScale(NatOfInt(hl[1]), BASE), hl[2]))
      Ends(r) == [value |-> r.value, carry |-> r.carry]
      Column(whole) ==
        IF NatLeq(whole, U64_BOUND)
        THEN [value |-> whole, carry |-> carry]
        ELSE Ends(While("schoolbook.inner", <<a, b, index_sum, last>>,
                        [i |-> first, value |-> value, carry |-> carry], n))
  IN  Column(Whole(ProductSum(a, b, index_sum, first, last)))

\* a turn of the outer loop that forgets the carry
SchoolbookStepDropCarry(a, b, s) ==
  LET col == SchoolbookColumn(a, b, s.index_sum, <<>>, <<>>)
  IN  [index_sum |-> s.index_sum + 1, carry |-> <<>>,
       values |-> checked_add(s.values, s.index_sum, U64ModBase(col.value))]

\* an end of the outer loop's turn that writes `value` as it is
SchoolbookWriteWhole(values, index_sum, value, carry) ==
  [index_sum |-> index_sum + 1, carry |-> U64Add(carry, U64DivBase(value)),
   values |-> checked_add(values, index_sum, value)]

\* the end of the outer loop's turn, after the inner loop:
\* carry += value / BASE; value %= BASE; product.checked_add(index_sum, value);
SchoolbookWrite(values, index_sum, value, carry) ==
  [index_sum |-> index_sum + 1, carry |-> U64Add(carry, U64DivBase(value)),
   values |-> checked_add(values, index_sum, U64ModBase(value))]

\* one turn of the schoolbook branch's outer loop
SchoolbookStep(a, b, s) ==
  LET Write(col) == SchoolbookWrite(s.values, s.index_sum, col.value, col.carry)
  IN  Write(SchoolbookColumn(a, b, s.index_sum, U64ModBase(s.carry), U64DivBase(s.carry)))

SchoolbookTest(a, b, s) == s.index_sum < Len(a) + Len(b) - 1 \/ s.carry # <<>>

TimesSchoolbookBody(a, b) ==
  LET n == Len(a)
      m == Len(b)
  IN  trim_check(While("schoolbook", <<a, b>>,
                       [index_sum |-> 0, carry |-> <<>>,
                        values |-> Resize(IntegerOfU64(<<>>), n + m - 1)],
                       n + m + 8).values)

\* a dispatch that looks at the sum of the sizes alone
TimesPathSumOnly(n, m) ==
  IF n + m > INTEGER_FFT_CUTOFF THEN "fft"
  ELSE IF n > KARATSUBA_CUTOFF THEN "karatsuba"
  ELSE "schoolbook"

\* which branch operator* takes for n <= m limbs
TimesPath(n, m) ==
  IF n > KARATSUBA_CUTOFF /\ n + m > INTEGER_FFT_CUTOFF THEN "fft"
  ELSE IF n > KARATSUBA_CUTOFF THEN "karatsuba"
  ELSE "schoolbook"

\* a Karatsuba branch that splits nothing off: a1 and b1 are empty
KaratsubaMidZero(n) == 0

\* const int mid = n / 2;
KaratsubaMid(n) == n \div 2

\* y = (a1 + a2) * (b1 + b2) - x - z and the recombination; the three
\* products come as [ok, val]
KaratsubaCombineBody(x, z, w, mid) ==
  IF ~(x.ok /\ z.ok /\ w.ok) THEN Abort
  ELSE LET wx == OpMinus(w.val, x.val)
       IN  IF ~wx.ok THEN Abort
           ELSE LET y == OpMinus(wx.val, z.val)
                IN  IF ~y.ok THEN Abort
                    ELSE Ok(OpPlus(OpPlus(OpShl(x.val, 2 * mid), OpShl(y.val, mid)), z.val))

\* a Karatsuba branch whose third product leaves b2 out
KaratsubaProductsHalf(a, b) ==
  LET mid == Len(a) \div 2
      a1 == range(a, 0, mid)
      a2 == range(a, mid, Len(a))
      b1 == range(b, 0, mid)
      b2 == range(b, mid, Len(b))
  IN  [mid |-> mid, x |-> OpTimes(a2, b2), z |-> OpTimes(a1, b1),
       w |-> OpTimes(OpPlus(a1, a2), b1)]

\* the Karatsuba branch up to its three products: mid, x = a2 * b2,
\* z = a1 * b1 and w = (a1 + a2) * (b1 + b2), each product as [ok, val]
KaratsubaProducts(a, b) ==
  LET mid == KaratsubaMid(Len(a))
      a1 == range(a, 0, mid)
      a2 == range(a, mid, Len(a))
      b1 == range(b, 0, mid)
      b2 == range(b, mid, Len(b))
  IN  [mid |-> mid, x |-> OpTimes(a2, b2), z |-> OpTimes(a1, b1),
       w |-> OpTimes(OpPlus(a1, a2), OpPlus(b1, b2))]

\* friend integer operator*(const integer &a, const integer &b)
OpTimesBody(a, b) ==
  LET n == Len(a)
      m == Len(b)
      Combined(p) == KaratsubaCombine(p.x, p.z, p.w, p.mid)
  IN  IF n > m THEN OpTimes(b, a)
      ELSE IF TimesPath(n, m) = "fft" THEN Ok(TimesFFT(a, b))
      ELSE IF TimesPath(n, m) = "karatsuba" THEN Combined(KaratsubaProducts(a, b))
      ELSE Ok(TimesSchoolbook(a, b))

\* one turn of the scalar product's loop
TimesU64Step(values, scalar, s) ==
  LET n == Len(values)
      value == U64Add(U64Wrap(NatScale(scalar, IF s.i < n THEN values[s.i + 1] ELSE 0)),
                      s.carry)
  IN  [i |-> s.i + 1, carry |-> U64DivBase(value),
       values |-> checked_add(s.values, s.i, U64ModBase(value))]

\* integer operator*(const uint64_t scalar) const
OpTimesU64Body(values, scalar) ==
  LET n == Len(values)
  IN  IF scalar = <<>> THEN Ok(IntegerOfU64(<<>>))
      ELSE IF ~NatLess(scalar, BASE_OVERFLOW_CUTOFF)
           THEN OpTimes(values, IntegerOfU64(scalar))
      ELSE Ok(trim_check(While("*u64", <<values, scalar>>,
                               [i |-> 0, carry |-> <<>>,
                                values |-> Resize(IntegerOfU64(<<>>), n + 1)],
                               n + 8).values))

(***************************************************************************)
(* Division.                                                               *)
(***************************************************************************)
\* the decimal digit of weight 10^k that the limbs hold (limbs below BASE)
DecDigitAt(values, k) ==
  IF k \div SECTION < Len(values)
  THEN (values[(k \div SECTION) + 1] \div Pow(10, k % SECTION)) % 10
  ELSE 0

\* the natural a limb vector with limbs below BASE stands for: its decimal
\* digits, taken three at a time
ValueBody(values) ==
  LET cnt == (SECTION * Len(values) + 2) \div 3
      D(j) == DecDigitAt(values, 3 * j) + 10 * DecDigitAt(values, 3 * j + 1)
              + 100 * DecDigitAt(values, 3 * j + 2)
  IN  NatNorm(SubSeq([j \in 1..cnt |-> D(j - 1)], 1, cnt))

\* estimate_div and the cast of line 581: the uint64_t `div`.  The estimate is
\* a quotient of doubles built from the leading DOUBLE_DIV_SECTIONS limbs of
\* each operand; what the doubles give is the true quotient of chunk by other
\* up to an error e, which the caller chooses.
EstimateDivBody(chunk, other, e) ==
  LET q == NatDivMod(Value(chunk), Value(other))[1]
  IN  IF e >= 0 THEN NatAddInt(q, e)
      ELSE IF NatLeq(NatOfInt(-e), q) THEN NatSub(q, NatOfInt(-e))
      ELSE <<>>

\* while (div > 0 && scalar > chunk) { scalar -= other; div--; }
\* a div_mod that never corrects an estimate downwards
CorrectDownNever(chunk, t) == FALSE

CorrectDownTest(chunk, t) == t.ok /\ t.div # <<>> /\ OpGreater(t.scalar, chunk)
\* a first while loop that lowers scalar and leaves div as it is
CorrectDownStepKeepDiv(other, t) ==
  LET Lowered(less) == [div |-> t.div, scalar |-> less.val, ok |-> less.ok]
  IN  Lowered(OpMinusAssign(t.scalar, other))

CorrectDownStep(other, t) ==
  LET Lowered(less) == [div |-> NatSub(t.div, <<1>>), scalar |-> less.val, ok |-> less.ok]
  IN  Lowered(OpMinusAssign(t.scalar, other))
CorrectDownBody(chunk, other, t0) == While("div_mod.down", <<chunk, other>>, t0, 2 * BASE)

\* while (div < BASE - 1 && scalar + other <= chunk) { scalar += other; div++; }
\* a div_mod that never corrects an estimate upwards
CorrectUpNever(chunk, other, t) == FALSE

CorrectUpTest(chunk, other, t) ==
  t.ok /\ NatLess(t.div, NatOfInt(BASE - 1)) /\ OpLessEq(OpPlus(t.scalar, other), chunk)
CorrectUpStep(other, t) ==
  [div |-> NatAddInt(t.div, 1), scalar |-> OpPlusAssign(t.scalar, other), ok |-> TRUE]
CorrectUpBody(chunk, other, t0) == While("div_mod.up", <<chunk, other>>, t0, 2 * BASE)

\* one turn of div_mod's loop; e is the error of this turn's estimate
DivModStepBody(other, s, e) ==
  LET Estimated(div, scalar) == [div |-> div, scalar |-> scalar.val, ok |-> scalar.ok]
      Start(div) == Estimated(div, OpTimesU64(other, div))
      Corrected(chunk) ==
        CorrectUp(chunk, other, CorrectDown(chunk, other, Start(EstimateDiv(chunk, other, e))))
      Taken(t, less) ==
        IF ~less.ok THEN [s EXCEPT !.ok = FALSE]
        ELSE [i |-> s.i - 1, remainder |-> trim_check(less.val), ok |-> TRUE,
              quotient |-> IF t.div # <<>> THEN checked_add(s.quotient, s.i, t.div)
                           ELSE s.quotient]
      Subtract(t) ==
        Taken(t, IF t.ok THEN OpMinusAssign(s.remainder, OpShl(t.scalar, s.i)) ELSE Abort)
  IN  IF s.i >= Len(s.remainder) THEN [s EXCEPT !.i = s.i - 1]
      ELSE Subtract(Corrected(range(s.remainder, s.i, -1)))

\* how many turns div_mod's loop takes
DivTurns(values, other) == Max(0, Len(values) - Len(other) + 1)

\* pair<integer, integer> div_mod(const integer &other) const; err[i + 1] is
\* the error of the estimate in the turn for position i.  Ok(<<quotient,
\* remainder>>), or Abort.
DivModTest(s) == s.ok /\ s.i >= 0
DivModLoop(values, other, err) ==
  While("div_mod", <<other, err>>,
        [i |-> Len(values) - Len(other), quotient |-> IntegerOfU64(<<>>),
         remainder |-> values, ok |-> TRUE], Len(values) - Len(other) + 1)
DivModBody(values, other, err) ==
  LET Done(r) == IF ~r.ok THEN Abort
                 ELSE Ok(<<trim_check(r.quotient), trim_check(r.remainder)>>)
  IN  IF ~OpGreater(other, IntegerOfU64(<<>>)) THEN Abort
      ELSE Done(DivModLoop(values, other, err))

\* .first and .second of a pair that is there
First(p) == IF p.ok THEN Ok(p.val[1]) ELSE Abort
Second(p) == IF p.ok THEN Ok(p.val[2]) ELSE Abort

OpDiv(a, b, err) == First(DivMod(a, b, err))
OpMod(a, b, err) == Second(DivMod(a, b, err))

\* a turn of the scalar div_mod's loop that leaves the remainder undivided
DivModU64StepWhole(values, denominator, s) ==
  LET Brought(remainder) ==
        IF ~NatLess(remainder, denominator)
        THEN [i |-> s.i - 1, remainder |-> remainder,
              quotient |-> checked_add(s.quotient, s.i,
                                       NatDivMod(remainder, denominator)[1])]
        ELSE [i |-> s.i - 1, remainder |-> remainder, quotient |-> s.quotient]
  IN  Brought(U64Wrap(NatAddInt(U64Wrap(NatScale(s.remainder, BASE)), values[s.i + 1])))

\* one turn of the scalar div_mod's loop
DivModU64Step(values, denominator, s) ==
  LET Divided(qr) == [i |-> s.i - 1, remainder |-> qr[2],
                      quotient |-> checked_add(s.quotient, s.i, qr[1])]
      Brought(remainder) ==
        IF ~NatLess(remainder, denominator)
        THEN Divided(NatDivMod(remainder, denominator))
        ELSE [i |-> s.i - 1, remainder |-> remainder, quotient |-> s.quotient]
  IN  Brought(U64Wrap(NatAddInt(U64Wrap(NatScale(s.remainder, BASE)), values[s.i + 1])))

\* pair<integer, uint64_t> div_mod(const uint64_t denominator) const
DivModU64Body(values, denominator, err) ==
  LET n == Len(values)
      Done(r) == Ok(<<trim_check(r.quotient), r.remainder>>)
      Big(big) == IF big.ok THEN Ok(<<big.val[1], ToU64(big.val[2])>>) ELSE Abort
  IN  IF denominator = <<>> THEN Abort
      ELSE IF ~NatLess(denominator, BASE_OVERFLOW_CUTOFF)
           THEN Big(DivMod(values, IntegerOfU64(denominator), err))
      ELSE Done(While("div_mod_u64", <<values, denominator>>,
                      [i |-> n - 1, remainder |-> <<>>, quotient |-> IntegerOfU64(<<>>)], n))

\* integer operator/(const uint64_t denominator) const
OpDivU64(values, denominator, err) == First(DivModU64(values, denominator, err))

\* one turn of the scalar remainder's loop
ModU64Step(values, denominator, s) ==
  LET Brought(remainder) ==
        [i |-> s.i - 1,
         remainder |-> IF ~NatLess(remainder, BASE_OVERFLOW_CUTOFF)
                       THEN NatDivMod(remainder, denominator)[2] ELSE remainder]
  IN  Brought(U64Wrap(NatAddInt(U64Wrap(NatScale(s.remainder, BASE)), values[s.i + 1])))

\* uint64_t operator%(const uint64_t denominator) const
OpModU64Body(values, denominator, err) ==
  LET n == Len(values)
      Big(big) == IF big.ok THEN Ok(ToU64(big.val[2])) ELSE Abort
  IN  IF denominator = <<>> THEN Abort
      ELSE IF NatLeq(denominator, NatOfInt(BASE)) /\ BASE % IntOfNat(denominator) = 0
           THEN (IF values = <<>> THEN Abort
                 ELSE Ok(NatOfInt(values[1] % IntOfNat(denominator))))
      ELSE IF ~NatLess(denominator, BASE_OVERFLOW_CUTOFF)
           THEN Big(DivMod(values, IntegerOfU64(denominator), err))
      ELSE Ok(NatDivMod(While("%u64", <<values, denominator>>,
                              [i |-> n - 1, remainder |-> <<>>], n).remainder,
                        denominator)[2])

\* integer &operator++(), integer &operator--()
OpIncrement(values) == OpPlusAssign(values, IntegerOfU64(<<1>>))
OpDecrement(values) == OpMinusAssign(values, IntegerOfU64(<<1>>))

(***************************************************************************)
(* What the results are measured against: decimal strings read as          *)
(* naturals, and the shape every limb vector is to keep.                   *)
(***************************************************************************)
\* the string of the decimal digits d
Chars(d) == SubSeq([i \in 1..Len(d) |-> FIRST_NUMBER_CHAR + d[i]], 1, Len(d))

AllDigits(str) ==
  \A i \in 1..Len(str) : FIRST_NUMBER_CHAR <= str[i] /\ str[i] <= LAST_NUMBER_CHAR

\* a digit string without its leading zeros; "0" when nothing is left
CanonicalTest(t) == Len(t) > 0 /\ t[1] = FIRST_NUMBER_CHAR
CanonicalBody(str) ==
  LET OrZero(rest) == IF rest = <<>> THEN <<FIRST_NUMBER_CHAR>> ELSE rest
  IN  OrZero(While("Canonical", <<>>, str, Len(str)))

\* the natural a digit string denotes
DecValueTurn(str, s) ==
  [i |-> s.i + 1, v |-> NatAddInt(NatScale(s.v, 10), str[s.i] - FIRST_NUMBER_CHAR)]
DecValueBody(str) == While("DecValue", <<str, 0, Len(str)>>, [i |-> 1, v |-> <<>>], Len(str)).v

\* non-empty, no most-significant zero limb unless the value is zero, every
\* limb below BASE
WellFormed(values) ==
  /\ Len(values) >= 1
  /\ Len(values) > 1 => values[Len(values)] # 0
  /\ \A i \in 1..Len(values) : 0 <= values[i] /\ values[i] < BASE

\* the error sequences the estimates of `turns` turns may take
ErrSeqs(turns) == [1..turns -> (0 - EstErr)..EstErr]

\* the condition of the loop l, and one turn of it
LoopTest(l, e, s) ==
  CASE l = "trim_check" -> trim_check_test(s)
    [] l = "NatNorm" -> NatNormTest(s)
    [] l = "NatCmp" -> NatCmpTest(e[1], e[2], s)
    [] l \in {"NatAdd", "NatSub", "NatScale", "DecValue"} -> NatAddTest(e[3], s)
    [] l = "NatMul" -> NatAddTest(e[2], s)
    [] l \in {"NatDivModSmall", "NatDivMod"} -> NatDivModSmallTest(s)
    [] l = "NatQuotDigit" -> NatQuotDigitTest(e[1], e[2], s)
    [] l = "init" -> init_test(s)
    [] l = "integer(string)" -> FromStringTest(s)
    [] l \in {"uint64_t", "div_mod_u64", "%u64"} -> ToU64Test(s)
    [] l = "to_string.limbs" -> ToStringLimbTest(e, s)
    [] l = "to_string.pop" -> ToStringPopTest(s)
    [] l = "compare" -> compare_test(e[1], e[2], s)
    [] l \in {"+=", "-="} -> AssignTest(e[1], s)
    [] l \in {"+=self", "-=self"} -> AssignTest(e, s)
    [] l = "fft.carry" -> CarryTest(Len(e), s)
    [] l = "schoolbook.inner" -> s.i <= e[4]
    [] l = "schoolbook" -> SchoolbookTest(e[1], e[2], s)
    [] l = "*u64" -> CarryTest(Len(e[1]), s)
    [] l = "div_mod.down" -> CorrectDownTest(e[1], s)
    [] l = "div_mod.up" -> CorrectUpTest(e[1], e[2], s)
    [] l = "div_mod" -> DivModTest(s)
    [] l = "Canonical" -> CanonicalTest(s)
    [] l = "prepare_roots" -> prepare_roots_test(e, s)

LoopTurn(l, e, s) ==
  CASE l = "trim_check" -> trim_check_turn(s)
    [] l = "NatNorm" -> NatNormTurn(s)
    [] l = "NatCmp" -> NatCmpTurn(s)
    [] l = "NatAdd" -> NatAddTurn(e[1], e[2], s)
    [] l = "NatSub" -> NatSubTurn(e[1], e[2], s)
    [] l = "NatScale" -> NatScaleTurn(e[1], e[2], s)
    [] l = "DecValue" -> DecValueTurn(e[1], s)
    [] l = "NatMul" -> NatMulTurn(e[1], s)
    [] l = "NatDivModSmall" -> NatDivModSmallTurn(e[1], e[2], s)
    [] l = "NatDivMod" -> NatDivModTurn(e[1], e[2], s)
    [] l = "NatQuotDigit" -> NatQuotDigitTurn(s)
    [] l = "init" -> init_turn(s)
    [] l = "integer(string)" -> FromStringStep(e, s)
    [] l = "uint64_t" -> ToU64Turn(e, s)
    [] l = "div_mod_u64" -> DivModU64Step(e[1], e[2], s)
    [] l = "%u64" -> ModU64Step(e[1], e[2], s)
    [] l = "to_string.limbs" -> ToStringLimbTurn(e, s)
    [] l = "to_string.pop" -> ToStringPopTurn(s)
    [] l = "compare" -> compare_turn(s)
    [] l = "+=" -> PlusAssignStep(e[1], e[2], s)
    [] l = "-=" -> MinusAssignStep(e[1], e[2], s)
    [] l = "+=self" -> PlusAssignSelfStep(e, s)
    [] l = "-=self" -> MinusAssignSelfStep(e, s)
    [] l = "fft.carry" -> FFTCarryStep(e, s)
    [] l = "schoolbook.inner" -> SchoolbookInnerStep(e[1], e[2], e[3], s)
    [] l = "schoolbook" -> SchoolbookStep(e[1], e[2], s)
    [] l = "*u64" -> TimesU64Step(e[1], e[2], s)
    [] l = "div_mod.down" -> CorrectDownStep(e[2], s)
    [] l = "div_mod.up" -> CorrectUpStep(e[2], s)
    [] l = "div_mod" -> DivModStep(e[1], s, e[2][s.i + 1])
    [] l = "Canonical" -> Tail(s)
    [] l = "prepare_roots" -> prepare_roots_turn(s)

\* at most `fuel` turns of the loop l; the halving keeps TLC's evaluation
\* stack logarithmic in the number of turns
RECURSIVE Turns(_, _, _, _)
Turns(l, e, s, fuel) ==
  IF fuel <= 0 \/ ~LoopTest(l, e, s) THEN s
  ELSE IF fuel = 1 THEN LoopTurn(l, e, s)
  ELSE Turns(l, e, Turns(l, e, s, fuel \div 2), fuel - (fuel \div 2))

\* the same, in runs of `step`, 2 * step, 4 * step, ... turns
RECURSIVE TurnsFrom(_, _, _, _, _)
TurnsFrom(l, e, s, step, fuel) ==
  IF fuel <= 0 \/ ~LoopTest(l, e, s) THEN s
  ELSE IF step < fuel
       THEN TurnsFrom(l, e, Turns(l, e, s, step), 2 * step, fuel - step)
  ELSE Turns(l, e, s, fuel)

WhileBody(l, e, s, fuel) == TurnsFrom(l, e, s, 1, fuel)

\* the functions behind Call
Call(f, x) ==
  CASE f = "While" -> WhileBody(x[1], x[2], x[3], x[4])
    [] f = "checked_add" -> checked_add_body(x[1], x[2], x[3])
    [] f = "U64Wrap" -> U64WrapBody(x[1])
    [] f = "NatCmp" -> NatCmpBody(x[1], x[2])
    [] f = "NatDivModSmall" -> NatDivModSmallBody(x[1], x[2])
    [] f = "NatNorm" -> NatNormBody(x[1])
    [] f = "NatAdd" -> NatAddBody(x[1], x[2])
    [] f = "NatSub" -> NatSubBody(x[1], x[2])
    [] f = "NatScale" -> NatScaleBody(x[1], x[2])
    [] f = "NatMul" -> NatMulBody(x[1], x[2])
    [] f = "NatQuotDigit" -> NatQuotDigitBody(x[1], x[2])
    [] f = "NatDivMod" -> NatDivModBody(x[1], x[2])
    [] f = "trim_check" -> trim_check_body(x[1])
    [] f = "init" -> init_body(x[1])
    [] f = "IntegerOfString" -> IntegerOfStringBody(x[1])
    [] f = "ToU64" -> ToU64Body(x[1])
    [] f = "to_string" -> to_string_body(x[1])
    [] f = "compare" -> compare_body(x[1], x[2])
    [] f = "OpPlusAssign" -> OpPlusAssignBody(x[1], x[2])
    [] f = "OpMinusAssign" -> OpMinusAssignBody(x[1], x[2])
    [] f = "FFTMultiply" -> FFTMultiplyBody(x[1], x[2])
    [] f = "TimesFFT" -> TimesFFTBody(x[1], x[2])
    [] f = "SchoolbookColumn" -> SchoolbookColumnBody(x[1], x[2], x[3], x[4], x[5])
    [] f = "TimesSchoolbook" -> TimesSchoolbookBody(x[1], x[2])
    [] f = "KaratsubaCombine" -> KaratsubaCombineBody(x[1], x[2], x[3], x[4])
    [] f = "OpTimes" -> OpTimesBody(x[1], x[2])
    [] f = "OpTimesU64" -> OpTimesU64Body(x[1], x[2])
    [] f = "Value" -> ValueBody(x[1])
    [] f = "EstimateDiv" -> EstimateDivBody(x[1], x[2], x[3])
    [] f = "CorrectDown" -> CorrectDownBody(x[1], x[2], x[3])
    [] f = "CorrectUp" -> CorrectUpBody(x[1], x[2], x[3])
    [] f = "DivModStep" -> DivModStepBody(x[1], x[2], x[3])
    [] f = "DivMod" -> DivModBody(x[1], x[2], x[3])
    [] f = "DivModU64" -> DivModU64Body(x[1], x[2], x[3])
    [] f = "OpModU64" -> OpModU64Body(x[1], x[2], x[3])
    [] f = "Canonical" -> CanonicalBody(x[1])
    [] f = "DecValue" -> DecValueBody(x[1])

(***************************************************************************)
(* Spec: one integer object `obj` under a sequence of public operations.   *)
(* `arg` is the last integer operand, `out` what the last operation was    *)
(* given and returned, `gen` how many operations have run, `pc` whether    *)
(* the program still runs or an assert has aborted it.                     *)
(***************************************************************************)
SeedU64 == {<<>>, <<1>>, NatOfInt(BASE - 1), NatOfInt(BASE)}
IntArgs == {IntegerOfU64(x) : x \in {<<>>, <<1>>, NatOfInt(BASE * BASE - 1)}}
ScalarArgs == {<<>>, <<1>>, NatOfInt(BASE), BASE_OVERFLOW_CUTOFF}
\* "", "0042", "12345", and three strings with other characters among the digits
StringArgs ==
  {<<>>, Chars(<<0, 0, 4, 2>>), Chars(<<1, 2, 3, 4, 5>>),
   <<FIRST_NUMBER_CHAR + 1, LAST_NUMBER_CHAR + 40>>,
   <<LAST_NUMBER_CHAR + 40, FIRST_NUMBER_CHAR + 7>>,
   <<FIRST_NUMBER_CHAR + 1, LAST_NUMBER_CHAR + 41, FIRST_NUMBER_CHAR + 2,
     FIRST_NUMBER_CHAR - 1, FIRST_NUMBER_CHAR + 3>>}

Init ==
  /\ obj \in {IntegerOfU64(x) : x \in SeedU64}
  /\ arg = IntegerOfU64(<<>>)
  /\ txt = <<>>
  /\ out = [op |-> "new"]
  /\ gen = 0
  /\ pc = "run"
  /\ roots = InitialRoots
  /\ bit_reverse = <<>>

\* the operation `name`, given `operand`, ends with r = [ok, val]
Returns(name, operand, r) ==
  /\ pc = "run"
  /\ gen < MaxGen
  /\ out' = [op |-> name, a |-> obj, b |-> operand, ok |-> r.ok, res |-> r.val]
  /\ pc' = IF r.ok THEN "run" ELSE "abort"
  /\ gen' = gen + 1
  /\ txt' = txt
  /\ UNCHANGED <<roots, bit_reverse>>

\* a compound form that computes its result and does not assign it
MutatesNothing(name, operand, r) ==
  /\ Returns(name, operand, r)
  /\ obj' = obj

\* ... and leaves its result in *this
Mutates(name, operand, r) ==
  /\ Returns(name, operand, r)
  /\ obj' = IF r.ok THEN r.val ELSE obj

\* x = integer(s);  x = integer(str)
AssignU64 ==
  \E s \in ScalarArgs : Mutates("=u64", s, Ok(IntegerOfU64(s))) /\ arg' = arg
AssignString ==
  \E str \in StringArgs : Mutates("=str", str, IntegerOfString(str)) /\ arg' = arg

PlusAssign ==
  \E b \in IntArgs : Mutates("+=", b, Ok(OpPlusAssign(obj, b))) /\ arg' = b
MinusAssign ==
  \E b \in IntArgs : Mutates("-=", b, OpMinusAssign(obj, b)) /\ arg' = b
TimesAssign ==
  \E b \in IntArgs : Mutates("*=", b, OpTimes(obj, b)) /\ arg' = b
DivAssign ==
  \E b \in IntArgs : \E err \in ErrSeqs(DivTurns(obj, b)) :
    Mutates("/=", b, OpDiv(obj, b, err)) /\ arg' = b
ModAssign ==
  \E b \in IntArgs : \E err \in ErrSeqs(DivTurns(obj, b)) :
    Mutates("%=", b, OpMod(obj, b, err)) /\ arg' = b

\* a += a, a -= a, a *= a: the operand is the object itself
PlusAssignSelf == Mutates("+=self", obj, Ok(OpPlusAssignSelf(obj))) /\ arg' = arg
MinusAssignSelf == Mutates("-=self", obj, OpMinusAssignSelf(obj)) /\ arg' = arg
TimesAssignSelf == Mutates("*=self", obj, OpTimes(obj, obj)) /\ arg' = arg

TimesAssignU64 ==
  \E s \in ScalarArgs : Mutates("*=u64", s, OpTimesU64(obj, s)) /\ arg' = arg
DivAssignU64 ==
  \E s \in ScalarArgs : \E err \in ErrSeqs(DivTurns(obj, IntegerOfU64(s))) :
    Mutates("/=u64", s, OpDivU64(obj, s, err)) /\ arg' = arg
\* *this = *this % denominator: the uint64_t goes through integer(uint64_t)
ModAssignU64 ==
  \E s \in ScalarArgs : \E err \in ErrSeqs(DivTurns(obj, IntegerOfU64(s))) :
    LET Made(r) == IF r.ok THEN Ok(IntegerOfU64(r.val)) ELSE Abort
    IN  Mutates("%=u64", s, Made(OpModU64(obj, s, err))) /\ arg' = arg

PreIncrement == Mutates("++x", <<>>, Ok(OpIncrement(obj))) /\ arg' = arg
PreDecrement == Mutates("--x", <<>>, OpDecrement(obj)) /\ arg' = arg
\* integer before = *this; ++*this; return before;
PostIncrement ==
  /\ Returns("x++", <<>>, Ok(obj))
  /\ obj' = OpIncrement(obj)
  /\ arg' = arg
PostDecrement ==
  LET Left(r) ==
        /\ Returns("x--", <<>>, IF r.ok THEN Ok(obj) ELSE Abort)
        /\ obj' = IF r.ok THEN r.val ELSE obj
        /\ arg' = arg
  IN  Left(OpDecrement(obj))

\* the value forms: *this is left alone
Plus ==
  \E b \in IntArgs : Returns("+", b, Ok(OpPlus(obj, b))) /\ arg' = b /\ obj' = obj
Minus ==
  \E b \in IntArgs : Returns("-", b, OpMinus(obj, b)) /\ arg' = b /\ obj' = obj
Times ==
  \E b \in IntArgs : Returns("*", b, OpTimes(obj, b)) /\ arg' = b /\ obj' = obj
DivModOf ==
  \E b \in IntArgs : \E err \in ErrSeqs(DivTurns(obj, b)) :
    Returns("div_mod", b, DivMod(obj, b, err)) /\ arg' = b /\ obj' = obj
Div ==
  \E b \in IntArgs : \E err \in ErrSeqs(DivTurns(obj, b)) :
    Returns("/", b, OpDiv(obj, b, err)) /\ arg' = b /\ obj' = obj
Mod ==
  \E b \in IntArgs : \E err \in ErrSeqs(DivTurns(obj, b)) :
    Returns("%", b, OpMod(obj, b, err)) /\ arg' = b /\ obj' = obj
TimesU64 ==
  \E s \in ScalarArgs : Returns("*u64", s, OpTimesU64(obj, s)) /\ arg' = arg /\ obj' = obj
DivModU64Of ==
  \E s \in ScalarArgs : \E err \in ErrSeqs(DivTurns(obj, IntegerOfU64(s))) :
    Returns("div_mod_u64", s, DivModU64(obj, s, err)) /\ arg' = arg /\ obj' = obj
DivU64 ==
  \E s \in ScalarArgs : \E err \in ErrSeqs(DivTurns(obj, IntegerOfU64(s))) :
    Returns("/u64", s, OpDivU64(obj, s, err)) /\ arg' = arg /\ obj' = obj
ModU64 ==
  \E s \in ScalarArgs : \E err \in ErrSeqs(DivTurns(obj, IntegerOfU64(s))) :
    Returns("%u64", s, OpModU64(obj, s, err)) /\ arg' = arg /\ obj' = obj
Shl ==
  \E k \in 0..MaxShift : Returns("<<", k, Ok(OpShl(obj, k))) /\ arg' = arg /\ obj' = obj

\* a.range(i, j) and a.range(i), j = -1 standing for the omitted argument
Range ==
  \E i \in 0..Len(obj) : \E j \in -1..Len(obj) :
    Returns("range", <<i, j>>, OpRange(obj, i, j)) /\ arg' = arg /\ obj' = obj

Next ==
  \/ AssignU64 \/ AssignString
  \/ PlusAssign \/ MinusAssign \/ TimesAssign \/ DivAssign \/ ModAssign
  \/ PlusAssignSelf \/ MinusAssignSelf \/ TimesAssignSelf \/ Range
  \/ TimesAssignU64 \/ DivAssignU64 \/ ModAssignU64
  \/ PreIncrement \/ PreDecrement \/ PostIncrement \/ PostDecrement
  \/ Plus \/ Minus \/ Times \/ DivModOf \/ Div \/ Mod
  \/ TimesU64 \/ DivModU64Of \/ DivU64 \/ ModU64 \/ Shl

Spec == Init /\ [][Next]_vars

(***************************************************************************)
(* Properties of Spec.                                                     *)
(***************************************************************************)
\* the integers the last operation returned
OutIntegers ==
  IF out.op = "new" \/ ~out.ok THEN {}
  ELSE IF out.op = "div_mod" THEN {out.res[1], out.res[2]}
  ELSE IF out.op = "div_mod_u64" THEN {out.res[1]}
  ELSE IF out.op = "%u64" THEN {}
  ELSE {out.res}

\* the last operation failed an assert: nothing was returned, the object is
\* as it was and the program has stopped
Aborted == ~out.ok /\ pc = "abort" /\ obj = out.a

\* C1: after any sequence of public operations whose preconditions are met,
\* the object, the operand and every integer returned have at least one
\* limb, no most-significant zero limb unless they are the single limb 0,
\* and every limb in [0, BASE).
C1_EveryIntegerWellFormed ==
  /\ WellFormed(obj)
  /\ WellFormed(arg)
  /\ \A v \in OutIntegers : WellFormed(v)

\* a subtraction whose result has fewer limbs than its left operand
C1_Witness == out.op = "-=" /\ out.ok /\ Len(obj) < Len(out.a)

\* C7: a subtraction with a smaller left operand, a decrement of zero, and a
\* division or modulo by zero, in the value and in the scalar form, abort and
\* return nothing.
C7_ViolationsAbort ==
  /\ (out.op \in {"-", "-="} /\ NatLess(Value(out.a), Value(out.b))) => Aborted
  /\ (out.op \in {"--x", "x--"} /\ Value(out.a) = <<>>) => Aborted
  /\ (out.op \in {"/", "%", "/=", "%=", "div_mod"} /\ Value(out.b) = <<>>) => Aborted
  /\ (out.op \in {"/u64", "%u64", "/=u64", "%=u64", "div_mod_u64"} /\ out.b = <<>>)
       => Aborted

\* the postfix decrement of zero has aborted
C7_Witness == out.op = "x--" /\ out.a = <<0>> /\ pc = "abort"

\* what C12 asks of the state an increment or a decrement leaves
IncDecState ==
  /\ out.op = "++x" =>
       out.ok /\ Value(obj) = NatAddInt(Value(out.a), 1) /\ out.res = obj
  /\ out.op = "x++" =>
       out.ok /\ Value(obj) = NatAddInt(Value(out.a), 1) /\ out.res = out.a
  /\ (out.op = "--x" /\ Value(out.a) # <<>>) =>
       out.ok /\ NatAddInt(Value(obj), 1) = Value(out.a) /\ out.res = obj
  /\ (out.op = "x--" /\ Value(out.a) # <<>>) =>
       out.ok /\ NatAddInt(Value(obj), 1) = Value(out.a) /\ out.res = out.a

\* a decrement that follows an increment leaves the object as it was before
\* the increment
IncThenDec ==
  (out.op \in {"++x", "x++"} /\ out'.op \in {"--x", "x--"}) => obj' = out.a

\* C12: ++x leaves old + 1 and returns the new value, x++ returns the old
\* value and leaves old + 1; for x > 0, --x leaves old - 1 and returns the
\* new value, x-- returns the old value and leaves old - 1; ++ followed by --
\* restores x.
C12_IncrementDecrement == []IncDecState /\ [][IncThenDec]_vars

\* 10000 decremented across the limb boundary to 9999
C12_Witness == out.op = "--x" /\ out.ok /\ out.a = <<0, 1>> /\ obj = <<BASE - 1>>

\* the operators that take *this by value or as const
ValueOps ==
  {"+", "-", "*", "/", "%", "<<", "range", "div_mod", "*u64", "/u64", "%u64",
   "div_mod_u64"}

\* C13: a binary operator leaves both operands as they were; a compound form
\* leaves in a the value of a op b computed from the operands as they were
\* and leaves b alone, also when b is a itself: a += a is 2a, a -= a is 0,
\* a *= a is the square.
C13_FrameEffects ==
  /\ out.op \in ValueOps => obj = out.a
  /\ out.op \in {"+", "-", "*", "/", "%", "div_mod", "+=", "-=", "*=", "/=", "%="}
       => arg = out.b
  /\ out.op = "+=" => obj = OpPlus(out.a, out.b)
  /\ (out.op = "-=" /\ out.ok) => obj = OpMinus(out.a, out.b).val
  /\ out.op = "*=" => obj = OpTimes(out.a, out.b).val
  /\ (out.op = "/=" /\ out.ok) => Value(obj) = NatDivMod(Value(out.a), Value(out.b))[1]
  /\ (out.op = "%=" /\ out.ok) => Value(obj) = NatDivMod(Value(out.a), Value(out.b))[2]
  /\ out.op = "+=self" => out.ok /\ Value(obj) = NatScale(Value(out.a), 2)
  /\ out.op = "-=self" => out.ok /\ obj = <<0>>
  /\ out.op = "*=self" => out.ok /\ Value(obj) = NatMul(Value(out.a), Value(out.a))

\* a += a has doubled a non-zero a
C13_Witness == out.op = "+=self" /\ out.ok /\ obj # out.a

\* the position (from 1) of the last character of str that is no digit
LastNonDigit(str) ==
  CHOOSE i \in 1..Len(str) :
    /\ ~AllDigits(<<str[i]>>)
    /\ AllDigits(SubSeq(str, i + 1, Len(str)))

\* C15: the constructor from a string with a character outside '0'..'9'
\* aborts at the first such character it meets, scanning from the right, and
\* yields no integer.
C15_InvalidStringAborts ==
  out.op = "=str" =>
    /\ out.ok <=> AllDigits(out.b)
    /\ ~AllDigits(out.b) =>
         /\ Aborted
         /\ ~FromStringScan(out.b).ok
         /\ FromStringScan(out.b).i = LastNonDigit(out.b) - 1

\* the string with two such characters was refused
C15_Witness == out.op = "=str" /\ pc = "abort" /\ Len(out.b) = 5

(***************************************************************************)
(* SpecExpr: the operators as functions of two operands.  Init reads the   *)
(* operands from two digit strings, kept in txt; each action applies one   *)
(* operator to obj and arg and leaves in `out` what it returned.           *)
(***************************************************************************)
\* "", "0", "7", "0042", "9999", "10000", "19999", "20001", "99999999",
\* "100000000", "123456789012", "999999999999"
ExprStrings ==
  {<<>>, Chars(<<0>>), Chars(<<7>>), Chars(<<0, 0, 4, 2>>), Chars(<<9, 9, 9, 9>>),
   Chars(<<1, 0, 0, 0, 0>>), Chars(<<1, 9, 9, 9, 9>>), Chars(<<2, 0, 0, 0, 1>>),
   Chars(<<9, 9, 9, 9, 9, 9, 9, 9>>), Chars(<<1, 0, 0, 0, 0, 0, 0, 0, 0>>),
   Chars(<<1, 2, 3, 4, 5, 6, 7, 8, 9, 0, 1, 2>>),
   Chars(<<9, 9, 9, 9, 9, 9, 9, 9, 9, 9, 9, 9>>)}

\* the third operand of the laws
LawArgs == {IntegerOfU64(x) : x \in {<<>>, <<1>>, NatOfInt(BASE - 1), NatOfInt(BASE * BASE - 1)}}

InitExpr ==
  /\ txt \in ExprStrings \X ExprStrings
  /\ obj = IntegerOfString(txt[1]).val
  /\ arg = IntegerOfString(txt[2]).val
  /\ out = [op |-> "new"]
  /\ gen = 0
  /\ pc = "eval"
  /\ roots = InitialRoots
  /\ bit_reverse = <<>>

\* "1" followed by SECTION * k "0"s: the decimal string of BASE^k
PowString(k) ==
  <<FIRST_NUMBER_CHAR + 1>>
    \o SubSeq([i \in 1..(SECTION * k) |-> FIRST_NUMBER_CHAR], 1, SECTION * k)

\* one operator is applied, and `out` is what it gave
Evaluated(r) ==
  /\ gen = 0
  /\ out' = r
  /\ gen' = 1
  /\ UNCHANGED <<obj, arg, txt, roots, bit_reverse>>

EvalPlus ==
  /\ Evaluated([op |-> "+", res |-> OpPlus(obj, arg)])
  /\ pc' = pc

\* a - b, and (a - b) + b where a - b is defined
EvalMinus ==
  LET Back(d) == [op |-> "-", ok |-> d.ok, res |-> d.val,
                  back |-> IF d.ok THEN OpPlus(d.val, arg) ELSE <<>>]
  IN  /\ Evaluated(Back(OpMinus(obj, arg)))
      /\ pc' = pc

EvalTimes ==
  LET Got(r) == [op |-> "*", ok |-> r.ok, res |-> r.val]
  IN  /\ Evaluated(Got(OpTimes(obj, arg)))
      /\ pc' = pc

EvalDivMod ==
  LET Got(r) == [op |-> "div_mod", ok |-> r.ok, res |-> r.val]
  IN  /\ \E err \in ErrSeqs(DivTurns(obj, arg)) : Evaluated(Got(DivMod(obj, arg, err)))
      /\ pc' = pc
EvalDiv ==
  LET Got(r) == [op |-> "/", ok |-> r.ok, res |-> r.val]
  IN  /\ \E err \in ErrSeqs(DivTurns(obj, arg)) : Evaluated(Got(OpDiv(obj, arg, err)))
      /\ pc' = pc
EvalMod ==
  LET Got(r) == [op |-> "%", ok |-> r.ok, res |-> r.val]
  IN  /\ \E err \in ErrSeqs(DivTurns(obj, arg)) : Evaluated(Got(OpMod(obj, arg, err)))
      /\ pc' = pc

EvalCompare ==
  /\ Evaluated([op |-> "cmp", res |-> compare(obj, arg), lt |-> OpLess(obj, arg),
                eq |-> OpEq(obj, arg), gt |-> OpGreater(obj, arg), le |-> OpLessEq(obj, arg),
                ge |-> OpGreaterEq(obj, arg), ne |-> OpNotEq(obj, arg)])
  /\ pc' = pc

EvalToString ==
  /\ Evaluated([op |-> "str", res |-> to_string(obj)])
  /\ pc' = pc

\* a << k, its string, and a * integer(B^k)
EvalShl ==
  LET Got(k, r) == [op |-> "<<", k |-> k, res |-> r, str |-> to_string(r),
                    times |-> OpTimes(obj, IntegerOfString(PowString(k)).val).val]
  IN  /\ \E k \in 0..MaxShift : Evaluated(Got(k, OpShl(obj, k)))
      /\ pc' = pc

\* a.range(i, j), j = -1 for the omitted argument, and the two halves of a
\* cut at limb i, put together again
EvalRange ==
  /\ \E i \in 0..Len(obj) : \E j \in {-1} \cup i..Len(obj) :
       Evaluated([op |-> "range", i |-> i, j |-> j, res |-> range(obj, i, j),
                  glued |-> OpPlus(range(obj, 0, i), OpShl(range(obj, i, Len(obj)), i))])
  /\ pc' = pc

\* the two sides of each ring law for a = obj, b = arg and a third operand c
EvalLaws ==
  /\ \E c \in LawArgs :
       Evaluated([op |-> "laws", c |-> c,
                  assocL |-> OpPlus(OpPlus(obj, arg), c), assocR |-> OpPlus(obj, OpPlus(arg, c)),
                  plusL |-> OpPlus(obj, arg), plusR |-> OpPlus(arg, obj),
                  timesL |-> OpTimes(obj, arg).val, timesR |-> OpTimes(arg, obj).val,
                  distL |-> OpTimes(obj, OpPlus(arg, c)).val,
                  distR |-> OpPlus(OpTimes(obj, arg).val, OpTimes(obj, c).val),
                  plusZero |-> OpPlus(obj, IntegerOfU64(<<>>)),
                  timesOne |-> OpTimes(obj, IntegerOfU64(<<1>>)).val,
                  timesZero |-> OpTimes(obj, IntegerOfU64(<<>>)).val])
  /\ pc' = pc

NextExpr ==
  \/ EvalPlus \/ EvalMinus \/ EvalTimes \/ EvalDivMod \/ EvalDiv \/ EvalMod
  \/ EvalCompare \/ EvalToString \/ EvalShl \/ EvalRange \/ EvalLaws

SpecExpr == InitExpr /\ [][NextExpr]_vars

(***************************************************************************)
(* Properties of SpecExpr.                                                 *)
(***************************************************************************)
\* the natural BASE^k
PowBase(k) == DecValue(PowString(k))

\* C2: for d > 0, div_mod(a, d) returns well-formed (q, r) with
\* value(a) = value(q) * value(d) + value(r) and value(r) < value(d);
\* operator/ returns that q and operator% that r; and where a has fewer
\* limbs than d, q = 0 and r = a.
C2_DivisionIdentity ==
  /\ (out.op \in {"div_mod", "/", "%"} /\ Value(arg) # <<>>) => out.ok
  /\ (out.op = "div_mod" /\ Value(arg) # <<>>) =>
       /\ WellFormed(out.res[1]) /\ WellFormed(out.res[2])
       /\ Value(obj) = NatAdd(NatMul(Value(out.res[1]), Value(arg)), Value(out.res[2]))
       /\ NatLess(Value(out.res[2]), Value(arg))
       /\ Len(obj) < Len(arg) => (out.res[1] = <<0>> /\ out.res[2] = obj)
  /\ (out.op = "/" /\ Value(arg) # <<>>) =>
       /\ WellFormed(out.res)
       /\ Value(out.res) = NatDivMod(Value(obj), Value(arg))[1]
  /\ (out.op = "%" /\ Value(arg) # <<>>) =>
       /\ WellFormed(out.res)
       /\ Value(out.res) = NatDivMod(Value(obj), Value(arg))[2]

\* a division by two limbs that left a quotient of two limbs and a remainder
C2_Witness ==
  /\ out.op = "div_mod" /\ out.ok
  /\ Len(arg) = 2 /\ Len(out.res[1]) = 2 /\ out.res[2] # <<0>>

\* C4: value(a + b) = value(a) + value(b); a - b is defined exactly for
\* a >= b, and then value(a - b) = value(a) - value(b) and (a - b) + b == a.
C4_AddSubtract ==
  /\ out.op = "+" =>
       /\ WellFormed(out.res)
       /\ Value(out.res) = NatAdd(Value(obj), Value(arg))
  /\ out.op = "-" =>
       /\ out.ok <=> NatLeq(Value(arg), Value(obj))
       /\ out.ok =>
            /\ WellFormed(out.res)
            /\ Value(out.res) = NatSub(Value(obj), Value(arg))
            /\ out.back = obj
            /\ OpEq(out.back, obj)

\* a difference that borrowed from the limb above and lost it
C4_Witness ==
  /\ out.op = "-" /\ out.ok
  /\ arg # <<0>> /\ Len(out.res) < Len(obj) /\ out.res # <<0>>

\* C5: integer(s).to_string() is s without its leading zeros, "0" when
\* nothing is left (the empty string too); a canonical s comes back as it
\* is, and only "0" starts with '0'.
C5_StringRoundTrip ==
  out.op = "str" =>
    /\ out.res = Canonical(txt[1])
    /\ txt[1] = Canonical(txt[1]) => out.res = txt[1]
    /\ out.res[1] = FIRST_NUMBER_CHAR => out.res = <<FIRST_NUMBER_CHAR>>

\* "0042" came back as "42"
C5_Witness ==
  /\ out.op = "str"
  /\ txt[1] = Chars(<<0, 0, 4, 2>>)
  /\ out.res = Chars(<<4, 2>>)

\* C6: compare(a, b) is -1, 0 or +1 as value(a) - value(b) is negative,
\* zero or positive; exactly one of a < b, a == b, a > b holds; <=, >=, !=
\* agree with it; and the order is that of the decimal strings read as
\* numbers.
C6_CompareOrder ==
  out.op = "cmp" =>
    /\ out.res \in {-1, 0, 1}
    /\ out.res = NatCmp(Value(obj), Value(arg))
    /\ out.res = NatCmp(DecValue(txt[1]), DecValue(txt[2]))
    /\ out.lt <=> out.res = -1
    /\ out.eq <=> out.res = 0
    /\ out.gt <=> out.res = 1
    /\ Cardinality({x \in {"lt", "eq", "gt"} : out[x]}) = 1
    /\ out.le <=> (out.lt \/ out.eq)
    /\ out.ge <=> (out.gt \/ out.eq)
    /\ out.ne <=> ~out.eq

\* two operands of two limbs with the same top limb, told apart by the limb
\* below it
C6_Witness ==
  /\ out.op = "cmp"
  /\ Len(obj) = 2 /\ Len(arg) = 2 /\ obj[2] = arg[2] /\ obj[1] > arg[1]
  /\ out.gt

\* C9: a << k is a * B^k: k zero limbs below the limbs of a, the decimal
\* string of a followed by SECTION * k zeros, and 0 << k is 0.
C9_ShiftIsTimesPower ==
  out.op = "<<" =>
    /\ WellFormed(out.res)
    /\ Value(out.res) = NatMul(Value(obj), PowBase(out.k))
    /\ out.res = out.times
    /\ obj # <<0>> =>
         /\ out.res = Zeros(out.k) \o obj
         /\ out.str = to_string(obj) \o Tail(PowString(out.k))
    /\ obj = <<0>> => (out.res = <<0>> /\ out.str = <<FIRST_NUMBER_CHAR>>)

\* three limbs shifted by two
C9_Witness == out.op = "<<" /\ out.k = 2 /\ Len(obj) = 3 /\ Len(out.res) = 5

\* C10: the ring laws, as equalities of integers (operator==) and of the
\* limb vectors.
C10_RingLaws ==
  out.op = "laws" =>
    /\ out.assocL = out.assocR /\ OpEq(out.assocL, out.assocR)
    /\ out.plusL = out.plusR /\ OpEq(out.plusL, out.plusR)
    /\ out.timesL = out.timesR /\ OpEq(out.timesL, out.timesR)
    /\ out.distL = out.distR /\ OpEq(out.distL, out.distR)
    /\ out.plusZero = obj /\ OpEq(out.plusZero, obj)
    /\ out.timesOne = obj /\ OpEq(out.timesOne, obj)
    /\ out.timesZero = <<0>> /\ OpEq(out.timesZero, IntegerOfU64(<<>>))

\* three limbs times the sum of two limbs and 99999999
C10_Witness ==
  /\ out.op = "laws"
  /\ Len(obj) = 3 /\ Len(arg) = 2 /\ out.c = <<BASE - 1, BASE - 1>>
  /\ Len(out.distL) >= 5

\* res is the limbs w without the zero limbs at its top, <<0>> when no limb
\* is left
NormalizedFrom(w, res) ==
  /\ WellFormed(res)
  /\ \/ \E z \in 0..Len(w) : w = res \o Zeros(z)
     \/ res = <<0>> /\ w = Zeros(Len(w))

\* C14: a.range(i, j) is limbs i..j-1 of a, normalized, that is
\* floor(value(a) / B^i) mod B^(j - i); the single limb 0 when i = j; j
\* omitted stands for |a|; and a.range(0, mid) + (a.range(mid, |a|) << mid)
\* is a.
C14_RangeWindow ==
  out.op = "range" =>
    LET j == IF out.j = -1 THEN Len(obj) ELSE out.j
    IN  /\ NormalizedFrom(SubSeq(obj, out.i + 1, j), out.res)
        /\ Value(out.res)
             = NatDivMod(NatDivMod(Value(obj), PowBase(out.i))[1], PowBase(j - out.i))[2]
        /\ out.i = j => out.res = <<0>>
        /\ out.j = -1 => out.res = range(obj, out.i, Len(obj))
        /\ out.glued = obj /\ OpEq(out.glued, obj)

\* the two upper limbs of three
C14_Witness ==
  /\ out.op = "range"
  /\ Len(obj) = 3 /\ out.i = 1 /\ out.j = 3 /\ Len(out.res) = 2

(***************************************************************************)
(* SpecScalar: the operations that take or give a uint64_t.  Init reads an *)
(* integer (obj) and a 64-bit scalar (arg, a natural below 2^64) from two  *)
(* decimal strings, kept in txt; each action applies one operation and     *)
(* leaves in `out` what it returned next to what the integer form returns. *)
(***************************************************************************)
\* the decimal string of the natural u
RECURSIVE DecString(_)
DecString(u) ==
  IF NatFitsInt(u) /\ IntOfNat(u) < 10 THEN <<FIRST_NUMBER_CHAR + IntOfNat(u)>>
  ELSE DecString(NatDivModSmall(u, 10)[1]) \o <<FIRST_NUMBER_CHAR + NatDivModSmall(u, 10)[2]>>

\* 0, 7, 9999, 10000, 123456789012, 2^64 - 1, 2^64, 2^64 + 9999 and
\* 99999999999999999999
ScalarObjStrings ==
  {Chars(<<0>>), Chars(<<7>>), Chars(<<9, 9, 9, 9>>), Chars(<<1, 0, 0, 0, 0>>),
   Chars(<<1, 2, 3, 4, 5, 6, 7, 8, 9, 0, 1, 2>>),
   DecString(UINT64_MAX), DecString(TwoTo64), DecString(NatAddInt(TwoTo64, BASE - 1)),
   Chars([i \in 1..20 |-> 9])}

\* 0, 1, 3, 16, 625, 9999, 10000, 10001, 2^32, the cutoff less one, the
\* cutoff, the cutoff plus one and 2^64 - 1
ScalarStrings ==
  {Chars(<<0>>), Chars(<<1>>), Chars(<<3>>), Chars(<<1, 6>>), Chars(<<6, 2, 5>>),
   Chars(<<9, 9, 9, 9>>), Chars(<<1, 0, 0, 0, 0>>), Chars(<<1, 0, 0, 0, 1>>),
   Chars(<<4, 2, 9, 4, 9, 6, 7, 2, 9, 6>>),
   DecString(NatSub(BASE_OVERFLOW_CUTOFF, <<1>>)), DecString(BASE_OVERFLOW_CUTOFF),
   DecString(NatAddInt(BASE_OVERFLOW_CUTOFF, 1)), DecString(UINT64_MAX)}

InitScalar ==
  /\ txt \in ScalarObjStrings \X ScalarStrings
  /\ obj = IntegerOfString(txt[1]).val
  /\ arg = DecValue(txt[2])
  /\ out = [op |-> "new"]
  /\ gen = 0
  /\ pc = "scalar"
  /\ roots = InitialRoots
  /\ bit_reverse = <<>>

\* a * s and a * integer(s)
ScalarTimes ==
  LET Got(r, ref) == [op |-> "*s", ok |-> r.ok, res |-> r.val, ref |-> ref.val]
  IN  /\ Evaluated(Got(OpTimesU64(obj, arg), OpTimes(obj, IntegerOfU64(arg))))
      /\ pc' = pc

\* a.div_mod(s) and a.div_mod(integer(s))
ScalarDivMod ==
  LET Got(r, ref) == [op |-> "div_mod_s", ok |-> r.ok, res |-> r.val,
                      refok |-> ref.ok, ref |-> ref.val]
  IN  /\ \E err \in ErrSeqs(DivTurns(obj, IntegerOfU64(arg))) :
           Evaluated(Got(DivModU64(obj, arg, err), DivMod(obj, IntegerOfU64(arg), err)))
      /\ pc' = pc

\* a / s and a / integer(s)
ScalarDiv ==
  LET Got(r, ref) == [op |-> "/s", ok |-> r.ok, res |-> r.val,
                      refok |-> ref.ok, ref |-> ref.val]
  IN  /\ \E err \in ErrSeqs(DivTurns(obj, IntegerOfU64(arg))) :
           Evaluated(Got(OpDivU64(obj, arg, err), OpDiv(obj, IntegerOfU64(arg), err)))
      /\ pc' = pc

\* a % s and a % integer(s)
ScalarMod ==
  LET Got(r, ref) == [op |-> "%s", ok |-> r.ok, res |-> r.val,
                      refok |-> ref.ok, ref |-> ref.val]
  IN  /\ \E err \in ErrSeqs(DivTurns(obj, IntegerOfU64(arg))) :
           Evaluated(Got(OpModU64(obj, arg, err), OpMod(obj, IntegerOfU64(arg), err)))
      /\ pc' = pc

\* uint64_t(a); and integer(x), what it converts back to and its string
ScalarConvert ==
  LET Got(made) == [op |-> "u64", res |-> ToU64(obj), made |-> made,
                    back |-> ToU64(made), str |-> to_string(made)]
  IN  /\ Evaluated(Got(IntegerOfU64(arg)))
      /\ pc' = pc

NextScalar == ScalarTimes \/ ScalarDivMod \/ ScalarDiv \/ ScalarMod \/ ScalarConvert

SpecScalar == InitScalar /\ [][NextScalar]_vars

(***************************************************************************)
(* Properties of SpecScalar.                                               *)
(***************************************************************************)
\* C8: a * s is a * integer(s), for s = 0 too; for s > 0, a / s is
\* a / integer(s) and a % s is the value of a % integer(s), as div_mod(s)
\* gives them; below, at and above the cutoff UINT64_MAX / BASE and for the
\* divisors of BASE.
C8_ScalarForms ==
  /\ out.op = "*s" =>
       /\ out.ok /\ out.res = out.ref
       /\ Value(out.res) = NatMul(Value(obj), arg)
       /\ arg = <<>> => out.res = <<0>>
  /\ (out.op \in {"div_mod_s", "/s", "%s"} /\ arg # <<>>) => (out.ok /\ out.refok)
  /\ (out.op = "div_mod_s" /\ arg # <<>>) =>
       /\ out.res[1] = out.ref[1]
       /\ out.res[2] = Value(out.ref[2])
  /\ (out.op = "/s" /\ arg # <<>>) =>
       /\ out.res = out.ref
       /\ Value(out.res) = NatDivMod(Value(obj), arg)[1]
  /\ (out.op = "%s" /\ arg # <<>>) =>
       /\ out.res = Value(out.ref)
       /\ out.res = NatDivMod(Value(obj), arg)[2]

\* a quotient by the scalar that is the cutoff itself
C8_Witness ==
  /\ out.op = "/s" /\ out.ok
  /\ arg = BASE_OVERFLOW_CUTOFF
  /\ out.res # <<0>>

\* C11: uint64_t(a) is value(a) mod 2^64; uint64_t(integer(x)) is x, and
\* integer(x).to_string() is x in decimal.
C11_ConversionWraps ==
  out.op = "u64" =>
    /\ out.res = NatDivMod(Value(obj), TwoTo64)[2]
    /\ NatLeq(Value(obj), UINT64_MAX) => out.res = Value(obj)
    /\ WellFormed(out.made) /\ Value(out.made) = arg
    /\ out.back = arg
    /\ out.str = txt[2] /\ out.str = DecString(arg)

\* an integer above 2^64 - 1 that converted to what is left of it
C11_Witness ==
  /\ out.op = "u64"
  /\ NatLess(UINT64_MAX, Value(obj))
  /\ out.res # <<>> /\ out.res # Value(obj)

(***************************************************************************)
(* SpecFast: the single-pass loops of operator*(uint64_t),                 *)
(* div_mod(uint64_t) and operator%(uint64_t), turn by turn.  obj is the    *)
(* integer and arg the scalar; out.s holds the loop's variables, out.raw   *)
(* the value of the turn's 64-bit expression before it is stored (as a     *)
(* natural, so a value above UINT64_MAX shows), out.fed what the turn      *)
(* passed to checked_add, and out.res what the operation returned.         *)
(***************************************************************************)
\* 0, 1, 3, 16, 9999, 10001, 2^32, the cutoff less two, the cutoff less one,
\* the cutoff and 2^64 - 1
FastScalarStrings ==
  {Chars(<<0>>), Chars(<<1>>), Chars(<<3>>), Chars(<<1, 6>>), Chars(<<9, 9, 9, 9>>),
   Chars(<<1, 0, 0, 0, 1>>), Chars(<<4, 2, 9, 4, 9, 6, 7, 2, 9, 6>>),
   DecString(NatSub(BASE_OVERFLOW_CUTOFF, <<2>>)),
   DecString(NatSub(BASE_OVERFLOW_CUTOFF, <<1>>)),
   DecString(BASE_OVERFLOW_CUTOFF), DecString(UINT64_MAX)}

FastOps == {"*u64", "div_mod_u64", "%u64"}

InitFast ==
  /\ txt \in ScalarObjStrings \X FastScalarStrings
  /\ obj = IntegerOfString(txt[1]).val
  /\ arg = DecValue(txt[2])
  /\ out = [op |-> "none", s |-> [i |-> 0], raw |-> <<>>, fed |-> <<>>, res |-> <<>>]
  /\ gen = 0
  /\ pc = "pick"
  /\ roots = InitialRoots
  /\ bit_reverse = <<>>

\* the tests before each loop: scalar == 0 and scalar >= BASE_OVERFLOW_CUTOFF;
\* the assert and denominator >= BASE_OVERFLOW_CUTOFF; and before the loop of
\* operator% also BASE % denominator == 0
FastTaken(op, scalar) ==
  /\ scalar # <<>>
  /\ NatLess(scalar, BASE_OVERFLOW_CUTOFF)
  /\ op = "%u64" =>
       ~(NatLeq(scalar, NatOfInt(BASE)) /\ BASE % IntOfNat(scalar) = 0)

\* what each loop starts from
FastStart(op, values) ==
  LET n == Len(values)
  IN  CASE op = "*u64" ->
             [i |-> 0, carry |-> <<>>, values |-> Resize(IntegerOfU64(<<>>), n + 1)]
        [] op = "div_mod_u64" ->
             [i |-> n - 1, remainder |-> <<>>, quotient |-> IntegerOfU64(<<>>)]
        [] op = "%u64" -> [i |-> n - 1, remainder |-> <<>>]

\* scalar * (i < n ? values[i] : 0) + carry, and BASE * remainder + values[i],
\* as naturals
FastRaw(op, values, scalar, s) ==
  IF op = "*u64"
  THEN NatAdd(NatScale(scalar, IF s.i < Len(values) THEN values[s.i + 1] ELSE 0), s.carry)
  ELSE NatAddInt(NatScale(s.remainder, BASE), values[s.i + 1])

\* the second argument of the turn's checked_add, from the remainder the turn
\* holds after its first statement; nothing where the turn makes no such call
FastFed(op, scalar, s, stored) ==
  CASE op = "*u64" -> U64ModBase(stored)
    [] op = "div_mod_u64" ->
         IF ~NatLess(stored, scalar) THEN NatDivMod(stored, scalar)[1] ELSE <<>>
    [] op = "%u64" -> <<>>

\* what follows each loop
FastResult(op, scalar, s) ==
  CASE op = "*u64" -> trim_check(s.values)
    [] op = "div_mod_u64" -> <<trim_check(s.quotient), s.remainder>>
    [] op = "%u64" -> NatDivMod(s.remainder, scalar)[2]

\* the tests before the loop let it run
FastEnter ==
  /\ pc = "pick"
  /\ \E op \in FastOps :
       /\ FastTaken(op, arg)
       /\ pc' = op
       /\ out' = [out EXCEPT !.op = op, !.s = FastStart(op, obj)]
  /\ gen' = gen + 1
  /\ UNCHANGED <<obj, arg, txt, roots, bit_reverse>>

\* the tests before the loop return, abort or hand over to the integer form
FastOther ==
  /\ pc = "pick"
  /\ \E op \in FastOps :
       /\ ~FastTaken(op, arg)
       /\ \E err \in ErrSeqs(DivTurns(obj, IntegerOfU64(arg))) :
            out' = [out EXCEPT !.op = "other",
                      !.res = CASE op = "*u64" -> OpTimesU64(obj, arg)
                                [] op = "div_mod_u64" -> DivModU64(obj, arg, err)
                                [] op = "%u64" -> OpModU64(obj, arg, err)]
  /\ pc' = "done"
  /\ gen' = gen + 1
  /\ UNCHANGED <<obj, arg, txt, roots, bit_reverse>>

\* one turn of the loop
FastTurn ==
  /\ pc \in FastOps
  /\ LoopTest(pc, <<obj, arg>>, out.s)
  /\ out' = [out EXCEPT !.s = LoopTurn(pc, <<obj, arg>>, out.s),
                        !.raw = FastRaw(pc, obj, arg, out.s),
                        !.fed = FastFed(pc, arg, out.s,
                                        U64Wrap(FastRaw(pc, obj, arg, out.s)))]
  /\ gen' = gen + 1
  /\ UNCHANGED <<obj, arg, txt, pc, roots, bit_reverse>>

\* the loop's test fails: trim_check, the last remainder %= denominator, return
FastReturn ==
  /\ pc \in FastOps
  /\ ~LoopTest(pc, <<obj, arg>>, out.s)
  /\ out' = [out EXCEPT !.res = FastResult(pc, arg, out.s)]
  /\ pc' = "done"
  /\ gen' = gen + 1
  /\ UNCHANGED <<obj, arg, txt, roots, bit_reverse>>

NextFast == FastEnter \/ FastOther \/ FastTurn \/ FastReturn

SpecFast == InitFast /\ [][NextFast]_vars

(***************************************************************************)
(* Properties of SpecFast.                                                 *)
(***************************************************************************)
\* C25: in the single-pass loops of the scalar product, the scalar div_mod
\* and the scalar remainder, which run only for a scalar below
\* BASE_OVERFLOW_CUTOFF, no 64-bit value wraps: scalar * limb + carry and
\* BASE * remainder + limb are at most UINT64_MAX in every turn, every value
\* passed to checked_add is below BASE, and the remainder returned is below
\* the divisor.
C25_NoWrapInFastPaths ==
  /\ pc \in FastOps => (arg # <<>> /\ NatLess(arg, BASE_OVERFLOW_CUTOFF))
  /\ out.op \in FastOps =>
       /\ NatLeq(out.raw, UINT64_MAX)
       /\ NatLess(out.fed, NatOfInt(BASE))
       /\ out.op = "*u64" => NatLess(out.s.carry, arg)
       /\ out.op = "div_mod_u64" => NatLess(out.s.remainder, arg)
       /\ out.op = "%u64" => NatLess(out.s.remainder, BASE_OVERFLOW_CUTOFF)
  /\ (pc = "done" /\ out.op = "div_mod_u64") =>
       /\ NatLess(out.res[2], arg)
       /\ NatAdd(NatMul(Value(out.res[1]), arg), out.res[2]) = Value(obj)
  /\ (pc = "done" /\ out.op = "%u64") =>
       /\ NatLess(out.res, arg)
       /\ out.res = NatDivMod(Value(obj), arg)[2]
  /\ (pc = "done" /\ out.op = "*u64") => Value(out.res) = NatMul(Value(obj), arg)

\* the scalar product by the cutoff less one, two turns in, with a turn
\* whose value is above 2^63
C25_Witness ==
  /\ pc = "*u64" /\ out.s.i >= 2
  /\ arg = NatSub(BASE_OVERFLOW_CUTOFF, <<1>>)
  /\ NatLess(NatDivModSmall(UINT64_MAX, 2)[1], out.raw)
  /\ out.fed # <<>>

(***************************************************************************)
(* SpecDiv: div_mod(const integer &) turn by turn.  obj is the dividend,   *)
(* arg the divisor (> 0, so the assert passes), `out` the locals of the    *)
(* function and pc the place in the loop body:                             *)
(*   "head"      before the test i >= 0 of the for loop                    *)
(*   "estimated" chunk, div and scalar are set (lines 579 to 582)          *)
(*   "lowered"   the first while loop has ended (lines 584 to 587)         *)
(*   "corrected" the second while loop has ended (lines 589 to 592)        *)
(*   "done"      the function has returned                                 *)
(* The double that estimate_div returns is not computed: div is drawn from *)
(* Estimates, the values around the quotient digit and far from it.        *)
(***************************************************************************)
\* "0", "7", "9999", "10000", "99999999", "100000000", "123456789012",
\* "999999999999" and "99999999999999999999"
DividendStrings ==
  {Chars(<<0>>), Chars(<<7>>), Chars(<<9, 9, 9, 9>>), Chars(<<1, 0, 0, 0, 0>>),
   Chars([i \in 1..8 |-> 9]), Chars(<<1, 0, 0, 0, 0, 0, 0, 0, 0>>),
   Chars(<<1, 2, 3, 4, 5, 6, 7, 8, 9, 0, 1, 2>>),
   Chars([i \in 1..12 |-> 9]), Chars([i \in 1..20 |-> 9])}

\* "1", "7", "9999", "10000", "10001", "99999999" and "123456789"
DivisorStrings ==
  {Chars(<<1>>), Chars(<<7>>), Chars(<<9, 9, 9, 9>>), Chars(<<1, 0, 0, 0, 0>>),
   Chars(<<1, 0, 0, 0, 1>>), Chars([i \in 1..8 |-> 9]), Chars(<<1, 2, 3, 4, 5, 6, 7, 8, 9>>)}

\* the values the cast of the estimate may leave in div: those within
\* EstWide of floor(chunk / other) and the two EstFar away from it, zero in
\* the place of the negative ones; they go past BASE - 1 where the digit is
\* near it
Estimates(chunk, other) ==
  {EstimateDiv(chunk, other, e) : e \in ((0 - EstWide)..EstWide) \cup {0 - EstFar, EstFar}}

InitDiv ==
  /\ txt \in DividendStrings \X DivisorStrings
  /\ obj = IntegerOfString(txt[1]).val
  /\ arg = IntegerOfString(txt[2]).val
  /\ out = [i |-> Len(obj) - Len(arg), quotient |-> IntegerOfU64(<<>>), remainder |-> obj,
            chunk |-> <<0>>, div |-> <<>>, scalar |-> <<0>>]
  /\ gen = 0
  /\ pc = "head"
  /\ roots = InitialRoots
  /\ bit_reverse = <<>>

\* if (i >= remainder.values.size()) continue;
DivSkip ==
  /\ pc = "head" /\ out.i >= 0 /\ out.i >= Len(out.remainder)
  /\ out' = [out EXCEPT !.i = out.i - 1]
  /\ UNCHANGED <<obj, arg, txt, gen, pc, roots, bit_reverse>>

\* chunk = remainder.range(i); div = (uint64_t)(estimate + 1e-7);
\* scalar = other * div;
DivEstimate ==
  /\ pc = "head" /\ out.i >= 0 /\ out.i < Len(out.remainder)
  /\ LET Set(chunk, div, scalar) ==
           /\ out' = [out EXCEPT !.chunk = chunk, !.div = div, !.scalar = scalar.val]
           /\ pc' = IF scalar.ok THEN "estimated" ELSE "abort"
         Drawn(chunk) ==
           \E div \in Estimates(chunk, arg) : Set(chunk, div, OpTimesU64(arg, div))
     IN  Drawn(range(out.remainder, out.i, -1))
  /\ UNCHANGED <<obj, arg, txt, gen, roots, bit_reverse>>

\* while (div > 0 && scalar > chunk) { scalar -= other; div--; }
DivCorrectDown ==
  /\ pc = "estimated"
  /\ LET Set(t) ==
           /\ out' = [out EXCEPT !.div = t.div, !.scalar = t.scalar]
           /\ pc' = IF t.ok THEN "lowered" ELSE "abort"
     IN  Set(CorrectDown(out.chunk, arg, [div |-> out.div, scalar |-> out.scalar, ok |-> TRUE]))
  /\ UNCHANGED <<obj, arg, txt, gen, roots, bit_reverse>>

\* while (div < BASE - 1 && scalar + other <= chunk) { scalar += other; div++; }
DivCorrectUp ==
  /\ pc = "lowered"
  /\ LET Set(t) == out' = [out EXCEPT !.div = t.div, !.scalar = t.scalar]
     IN  Set(CorrectUp(out.chunk, arg, [div |-> out.div, scalar |-> out.scalar, ok |-> TRUE]))
  /\ pc' = "corrected"
  /\ UNCHANGED <<obj, arg, txt, gen, roots, bit_reverse>>

\* remainder -= scalar << i; remainder.trim_check();
\* if (div > 0) quotient.checked_add(i, div); and the loop's i--
DivSubtract ==
  /\ pc = "corrected"
  /\ LET Set(less) ==
           /\ out' = [out EXCEPT
                        !.i = out.i - 1,
                        !.remainder = IF less.ok THEN trim_check(less.val) ELSE out.remainder,
                        !.quotient = IF less.ok /\ out.div # <<>>
                                     THEN checked_add(out.quotient, out.i, out.div)
                                     ELSE out.quotient]
           /\ pc' = IF less.ok THEN "head" ELSE "abort"
     IN  Set(OpMinusAssign(out.remainder, OpShl(out.scalar, out.i)))
  /\ UNCHANGED <<obj, arg, txt, gen, roots, bit_reverse>>

\* quotient.trim_check(); remainder.trim_check(); return
DivReturn ==
  /\ pc = "head" /\ out.i < 0
  /\ out' = [out EXCEPT !.quotient = trim_check(out.quotient),
                        !.remainder = trim_check(out.remainder)]
  /\ pc' = "done"
  /\ UNCHANGED <<obj, arg, txt, gen, roots, bit_reverse>>

NextDiv == DivSkip \/ DivEstimate \/ DivCorrectDown \/ DivCorrectUp \/ DivSubtract \/ DivReturn

SpecDiv == InitDiv /\ [][NextDiv]_vars

(***************************************************************************)
(* Properties of SpecDiv.                                                  *)
(***************************************************************************)
\* C16: in every turn of div_mod's loop, whatever div the estimate gave,
\* after the two correction loops scalar = d * div, scalar <= chunk <
\* scalar + d, div = floor(chunk / d) and div <= BASE - 1; at the head of
\* the turn for i the remainder is below d * BASE^(i + 1), so that chunk is
\* below d * BASE; no assert fails on the way.
C16_CorrectedDigit ==
  /\ pc # "abort"
  /\ (pc = "head" /\ out.i >= 0) =>
       NatLess(Value(out.remainder), NatMul(Value(arg), PowBase(out.i + 1)))
  /\ pc \in {"estimated", "lowered", "corrected"} =>
       /\ NatLess(Value(out.chunk), NatMul(Value(arg), PowBase(1)))
       /\ Value(out.scalar) = NatMul(Value(arg), out.div)
  /\ pc = "lowered" => (out.div = <<>> \/ OpLessEq(out.scalar, out.chunk))
  /\ pc = "corrected" =>
       /\ out.scalar = OpTimes(arg, IntegerOfU64(out.div)).val
       /\ OpLessEq(out.scalar, out.chunk)
       /\ OpLess(out.chunk, OpPlus(out.scalar, arg))
       /\ out.div = NatDivMod(Value(out.chunk), Value(arg))[1]
       /\ NatLeq(out.div, NatOfInt(BASE - 1))
  /\ pc = "done" =>
       /\ Value(out.quotient) = NatDivMod(Value(obj), Value(arg))[1]
       /\ Value(out.remainder) = NatDivMod(Value(obj), Value(arg))[2]

\* a turn, not the first, of a division by two limbs that left a digit and
\* a remainder
C16_Witness ==
  /\ pc = "corrected"
  /\ out.i < Len(obj) - Len(arg)
  /\ Len(arg) = 2
  /\ out.div # <<>> /\ out.quotient # <<0>>
  /\ out.scalar # <<0>> /\ out.scalar # out.chunk

(***************************************************************************)
(* SpecDivTurns: div_mod(const integer &) test by test.  Every evaluation  *)
(* of a loop condition is a step of its own, and `out` counts them:        *)
(*   turns  the turns the for loop has begun                               *)
(*   first  the div of this turn as the cast of line 581 left it           *)
(*   down   the turns of the first while loop in this turn of the for loop *)
(*   low    the div the first while loop left                              *)
(*   up     the turns of the second while loop in this turn                *)
(* pc is "head", "estimated" (at the test of the first while loop),        *)
(* "lowered" (at the test of the second), "corrected" or "done"; gen       *)
(* counts the steps taken.  The function runs on one thread to its end     *)
(* without waiting for anything, so a call that has not returned takes its *)
(* next step: weak fairness of the step count.                             *)
(***************************************************************************)
InitDivTurns ==
  /\ txt \in DividendStrings \X DivisorStrings
  /\ obj = IntegerOfString(txt[1]).val
  /\ arg = IntegerOfString(txt[2]).val
  /\ out = [i |-> Len(obj) - Len(arg), quotient |-> IntegerOfU64(<<>>), remainder |-> obj,
            chunk |-> <<0>>, div |-> <<>>, scalar |-> <<0>>,
            turns |-> 0, first |-> <<>>, down |-> 0, low |-> <<>>, up |-> 0]
  /\ gen = 0
  /\ pc = "head"
  /\ roots = InitialRoots
  /\ bit_reverse = <<>>

\* if (i >= remainder.values.size()) continue;
TurnSkip ==
  /\ pc = "head" /\ out.i >= 0 /\ out.i >= Len(out.remainder)
  /\ out' = [out EXCEPT !.i = out.i - 1, !.turns = out.turns + 1]
  /\ gen' = gen + 1
  /\ UNCHANGED <<obj, arg, txt, pc, roots, bit_reverse>>

\* chunk = remainder.range(i); div = (uint64_t)(estimate + 1e-7);
\* scalar = other * div;
TurnEstimate ==
  /\ pc = "head" /\ out.i >= 0 /\ out.i < Len(out.remainder)
  /\ LET Set(chunk, div, scalar) ==
           /\ out' = [out EXCEPT !.chunk = chunk, !.div = div, !.scalar = scalar.val,
                                 !.turns = out.turns + 1, !.first = div, !.down = 0,
                                 !.low = div, !.up = 0]
           /\ pc' = IF scalar.ok THEN "estimated" ELSE "abort"
         Drawn(chunk) ==
           \E div \in Estimates(chunk, arg) : Set(chunk, div, OpTimesU64(arg, div))
     IN  Drawn(range(out.remainder, out.i, -1))
  /\ gen' = gen + 1
  /\ UNCHANGED <<obj, arg, txt, roots, bit_reverse>>

\* div > 0 && scalar > chunk holds: scalar -= other; div--;
TurnDown ==
  /\ pc = "estimated"
  /\ CorrectDownTest(out.chunk, [div |-> out.div, scalar |-> out.scalar, ok |-> TRUE])
  /\ LET Set(t) ==
           /\ out' = [out EXCEPT !.div = t.div, !.scalar = t.scalar,
                                 !.down = out.down + 1, !.low = t.div]
           /\ pc' = IF t.ok THEN "estimated" ELSE "abort"
     IN  Set(CorrectDownStep(arg, [div |-> out.div, scalar |-> out.scalar, ok |-> TRUE]))
  /\ gen' = gen + 1
  /\ UNCHANGED <<obj, arg, txt, roots, bit_reverse>>

\* div > 0 && scalar > chunk fails: the first while loop ends
TurnLowered ==
  /\ pc = "estimated"
  /\ ~CorrectDownTest(out.chunk, [div |-> out.div, scalar |-> out.scalar, ok |-> TRUE])
  /\ pc' = "lowered"
  /\ gen' = gen + 1
  /\ UNCHANGED <<obj, arg, txt, out, roots, bit_reverse>>

\* div < BASE - 1 && scalar + other <= chunk holds: scalar += other; div++;
TurnUp ==
  /\ pc = "lowered"
  /\ CorrectUpTest(out.chunk, arg, [div |-> out.div, scalar |-> out.scalar, ok |-> TRUE])
  /\ LET Set(t) ==
           out' = [out EXCEPT !.div = t.div, !.scalar = t.scalar, !.up = out.up + 1]
     IN  Set(CorrectUpStep(arg, [div |-> out.div, scalar |-> out.scalar, ok |-> TRUE]))
  /\ gen' = gen + 1
  /\ UNCHANGED <<obj, arg, txt, pc, roots, bit_reverse>>

\* div < BASE - 1 && scalar + other <= chunk fails: the second while loop ends
TurnCorrected ==
  /\ pc = "lowered"
  /\ ~CorrectUpTest(out.chunk, arg, [div |-> out.div, scalar |-> out.scalar, ok |-> TRUE])
  /\ pc' = "corrected"
  /\ gen' = gen + 1
  /\ UNCHANGED <<obj, arg, txt, out, roots, bit_reverse>>

\* remainder -= scalar << i; remainder.trim_check();
\* if (div > 0) quotient.checked_add(i, div); and the loop's i--
TurnSubtract ==
  /\ pc = "corrected"
  /\ LET Set(less) ==
           /\ out' = [out EXCEPT
                        !.i = out.i - 1,
                        !.remainder = IF less.ok THEN trim_check(less.val) ELSE out.remainder,
                        !.quotient = IF less.ok /\ out.div # <<>>
                                     THEN checked_add(out.quotient, out.i, out.div)
                                     ELSE out.quotient]
           /\ pc' = IF less.ok THEN "head" ELSE "abort"
     IN  Set(OpMinusAssign(out.remainder, OpShl(out.scalar, out.i)))
  /\ gen' = gen + 1
  /\ UNCHANGED <<obj, arg, txt, roots, bit_reverse>>

\* i >= 0 fails: quotient.trim_check(); remainder.trim_check(); return
TurnReturn ==
  /\ pc = "head" /\ out.i < 0
  /\ out' = [out EXCEPT !.quotient = trim_check(out.quotient),
                        !.remainder = trim_check(out.remainder)]
  /\ pc' = "done"
  /\ gen' = gen + 1
  /\ UNCHANGED <<obj, arg, txt, roots, bit_reverse>>

NextDivTurns ==
  \/ TurnSkip \/ TurnEstimate \/ TurnDown \/ TurnLowered
  \/ TurnUp \/ TurnCorrected \/ TurnSubtract \/ TurnReturn

\* the thread that runs the call takes its next step as long as the call has
\* not returned
TurnTaken == pc \notin {"done", "abort"} /\ gen' = gen + 1

SpecDivTurns == InitDivTurns /\ [][NextDivTurns]_vars /\ WF_gen(TurnTaken)

(***************************************************************************)
(* Properties of SpecDivTurns.                                             *)
(***************************************************************************)
\* the counts of a call of div_mod stay within their bounds, and the call is
\* at a place where one of its steps can be taken (the tests of TurnSkip,
\* TurnEstimate and TurnReturn, of TurnDown and TurnLowered, and of TurnUp and
\* TurnCorrected cover every case) or has returned
DivTurnsBounded ==
  /\ pc \in {"head", "estimated", "lowered", "corrected", "done"}
  /\ out.turns <= Max(0, Len(obj) - Len(arg) + 1)
  /\ out.turns = Len(obj) - Len(arg) - out.i
                 + (IF pc \in {"estimated", "lowered", "corrected"} THEN 1 ELSE 0)
  /\ NatAddInt(out.low, out.down) = out.first
  /\ NatLeq(NatOfInt(out.down), out.first)
  /\ NatAddInt(out.low, out.up) = out.div
  /\ out.up > 0 => NatLeq(NatAddInt(out.low, out.up), NatOfInt(BASE - 1))
  /\ out.down + out.up <= Max(IntOfNat(out.first), BASE - 1)

\* C21: div_mod returns for every a and every d > 0 whatever div the estimate
\* gave: the for loop begins at most |a| - |d| + 1 turns, the first while
\* loop takes at most as many turns as the div it began with (each one
\* lowers div by one), the second at most BASE - 1 minus the div it began
\* with (each one raises div by one, up to BASE - 1), and the call reaches
\* its return.
C21_DivModTerminates == []DivTurnsBounded /\ <>(pc = "done")

\* a turn, not the first, whose estimate was EstFar too low and was raised
\* one by one
C21_Witness ==
  /\ pc = "corrected"
  /\ out.turns >= 2
  /\ out.up > EstWide
  /\ out.div # out.first

(***************************************************************************)
(* SpecFFT: the tables `roots` and `bit_reverse` over a run of calls of    *)
(* FFT::multiply.  A call is given by the sizes of its two vectors and by  *)
(* whether they are equal; `out` holds the call in progress, gen counts    *)
(* the calls, and pc is the place in the call:                             *)
(*   "idle"              between two calls                                 *)
(*   "multiply.forward"  before fft_iterative(N, values) of multiply       *)
(*   "multiply.inverse"  before invert_fft(N, values)                      *)
(*   "square.roots"      before prepare_roots(2 * N) of square             *)
(*   "square.forward"    before the first fft_iterative(N, values)         *)
(*   "square.inverse"    before the second                                 *)
(* out.need is the largest size prepare_roots was called with so far and   *)
(* out.last the size bit_reorder was last called with.                     *)
(***************************************************************************)
\* <<n, m, left == right>>: an empty vector, the direct loops, transforms of
\* 128, 512 and 2048 points (151 and 1350 limbs are the least an integer
\* product brings to the FFT path), and squares of 64 and 751 elements
VectorSizes ==
  {<<0, 5, FALSE>>, <<8, 8, FALSE>>, <<64, 64, FALSE>>, <<64, 64, TRUE>>,
   <<100, 200, FALSE>>, <<KARATSUBA_CUTOFF + 1, INTEGER_FFT_CUTOFF - KARATSUBA_CUTOFF, FALSE>>,
   <<751, 751, TRUE>>}

InitFFT ==
  /\ obj = IntegerOfU64(<<>>)
  /\ arg = IntegerOfU64(<<>>)
  /\ txt = <<>>
  /\ out = [n |-> 0, m |-> 0, same |-> FALSE, N |-> 0, need |-> 0, last |-> 0]
  /\ gen = 0
  /\ pc = "idle"
  /\ roots = InitialRoots
  /\ bit_reverse = <<>>

\* FFT::multiply(left, right) is entered; the calls that need no transform
\* return at once
MultiplyCall ==
  /\ pc = "idle" /\ gen < MaxCalls
  /\ \E v \in VectorSizes :
       LET Enter(branch) ==
             /\ out' = [out EXCEPT !.n = v[1], !.m = v[2], !.same = v[3],
                                   !.N = TransformSize(v[1], v[2], v[3])]
             /\ pc' = CASE branch = "multiply" -> "multiply.forward"
                        [] branch = "square" -> "square.roots"
                        [] OTHER -> "idle"
       IN  Enter(MultiplyBranch(v[1], v[2], v[3]))
  /\ gen' = gen + 1
  /\ UNCHANGED <<obj, arg, txt, roots, bit_reverse>>

\* fft_iterative(n, values): prepare_roots(n); bit_reorder(n, values); and
\* the butterflies, which leave the two tables alone
fft_iterative(n) ==
  /\ roots' = prepare_roots(roots, n)
  /\ bit_reverse' = bit_reorder(bit_reverse, n)
  /\ out' = [out EXCEPT !.need = Max(out.need, n), !.last = n]

MultiplyForward ==
  /\ pc = "multiply.forward"
  /\ fft_iterative(out.N)
  /\ pc' = "multiply.inverse"
  /\ UNCHANGED <<obj, arg, txt, gen>>

\* invert_fft(N, values): it reads roots[N / 2 + i] and calls
\* fft_iterative(N / 2, values)
MultiplyInverse ==
  /\ pc = "multiply.inverse"
  /\ fft_iterative(out.N \div 2)
  /\ pc' = "idle"
  /\ UNCHANGED <<obj, arg, txt, gen>>

\* prepare_roots(2 * N) of square
SquareRoots ==
  /\ pc = "square.roots"
  /\ roots' = prepare_roots(roots, 2 * out.N)
  /\ out' = [out EXCEPT !.need = Max(out.need, 2 * out.N)]
  /\ pc' = "square.forward"
  /\ UNCHANGED <<obj, arg, txt, gen, bit_reverse>>

SquareForward ==
  /\ pc = "square.forward"
  /\ fft_iterative(out.N)
  /\ pc' = "square.inverse"
  /\ UNCHANGED <<obj, arg, txt, gen>>

SquareInverse ==
  /\ pc = "square.inverse"
  /\ fft_iterative(out.N)
  /\ pc' = "idle"
  /\ UNCHANGED <<obj, arg, txt, gen>>

NextFFT ==
  \/ MultiplyCall \/ MultiplyForward \/ MultiplyInverse
  \/ SquareRoots \/ SquareForward \/ SquareInverse

SpecFFT == InitFFT /\ [][NextFFT]_vars

RECURSIVE ReverseBits(_, _)
ReverseBits(i, length) ==
  IF length = 0 THEN 0
  ELSE (i % 2) * Pow(2, length - 1) + ReverseBits(i \div 2, length - 1)

\* entry j of roots as a function of j alone: the two entries of the
\* initializer, below an even index the entry of half the index, and at an
\* odd index lo + 2 * i + 1 (lo the power of two below it) the value of
\* polar(ONE, (2 * PI / (2 * lo)) * (2 * i + 1))
RECURSIVE RootOf(_)
RootOf(j) ==
  IF j < 2 THEN InitialRoots[j + 1]
  ELSE IF j % 2 = 0 THEN RootOf(j \div 2)
  ELSE <<j - (round_up_power_two(j + 1) \div 2), round_up_power_two(j + 1)>>

\* C24: what a transform reads from the two tables does not depend on the
\* calls before it, so neither does the product: after bit_reorder(n) the
\* table bit_reverse is the bit-reversal permutation of size n; roots has a
\* power of two as its size, its entry j is the same function of j after any
\* calls, and prepare_roots changes no entry that was there.
C24_HistoryFree ==
  /\ [](/\ Len(roots) = round_up_power_two(Len(roots))
        /\ \A j \in 1..Len(roots) : roots[j] = RootOf(j - 1)
        /\ Len(bit_reverse) = out.last
        /\ \A j \in 1..Len(bit_reverse) :
             bit_reverse[j] = ReverseBits(j - 1, Ctz(out.last)))
  /\ [][\A j \in 1..Len(roots) : j <= Len(roots') /\ roots'[j] = roots[j]]_vars

\* a transform of 128 values after one of 2048 or more: bit_reverse has been
\* built again for the smaller size, below roots as the larger call left it
C24_Witness ==
  /\ pc = "multiply.inverse" /\ gen >= 2
  /\ out.last = 128 /\ Len(bit_reverse) = 128
  /\ Len(roots) >= 2048

(***************************************************************************)
(* SpecRace: two threads, each inside the FFT branch of one product, on    *)
(* the two tables, which the source neither locks nor copies per thread.   *)
(* txt[t] is the pair of vector sizes of thread t's FFT::multiply, which   *)
(* calls fft_iterative(N) and then, in invert_fft, fft_iterative(N / 2).   *)
(* pc[t] is the place of thread t in fft_iterative:                        *)
(*   "roots.test"      before line 86, roots.size() >= n                   *)
(*   "roots.resize"    before lines 89 and 90                              *)
(*   "roots.fill"      before the while loop of line 92                    *)
(*   "reverse.test"    before line 72, bit_reverse.size() != n             *)
(*   "reverse.assign"  before line 73                                      *)
(*   "reverse.fill"    before the loop of lines 76 and 77                  *)
(*   "permute"         before the loop of lines 80 to 82                   *)
(*   "butterfly"       before the loops of lines 107 to 114                *)
(*   "done"            FFT::multiply has its values                        *)
(*   "undefined"       the thread has read or written past the end of a    *)
(*                     vector: anything may follow, and the thread is      *)
(*                     followed no further                                 *)
(* out[t] holds n, `half` (the transform is the one of invert_fft),        *)
(* prepare_roots' local length, and `seen`: what went wrong in the         *)
(* thread's accesses so far.  arg[t] is history: the tables the other      *)
(* thread has written since thread t last tested their size, or was        *)
(* building when thread t tested it.  Each loop over a table is one step;  *)
(* cutting the loops finer adds interleavings and takes none away.         *)
(***************************************************************************)
Threads == {1, 2}

Other(t) == 3 - t

\* the vector sizes of the two threads: a * b for 1100 limbs each (N = 4096)
\* in thread 1 and for 751 limbs each (N = 2048) in thread 2; a # b, so
\* multiply does not call square
RaceSizes == {<<<<1100, 1100>>, <<751, 751>>>>}

InitRace ==
  /\ txt \in RaceSizes
  /\ \A t \in Threads : MultiplyBranch(txt[t][1], txt[t][2], FALSE) = "multiply"
  /\ pc = [t \in Threads |-> "roots.test"]
  /\ out = [t \in Threads |->
              [n |-> TransformSize(txt[t][1], txt[t][2], FALSE), half |-> FALSE,
               length |-> 0, seen |-> {}]]
  /\ arg = [t \in Threads |-> {}]
  /\ obj = <<0>>
  /\ gen = 0
  /\ roots = InitialRoots
  /\ bit_reverse = <<>>

\* thread u is between its first and its last write of `table`; a thread
\* whose behaviour is undefined may write anything at any time
Building(u, table) ==
  pc[u] \in {IF table = "roots" THEN "roots.fill" ELSE "reverse.fill", "undefined"}

\* thread t tests the size of `table`: what the other thread wrote before is
\* behind it, unless the other thread is still building the table
Tested(t, table) ==
  arg' = [arg EXCEPT ![t] = IF Building(Other(t), table) THEN @ \cup {table}
                            ELSE @ \ {table}]

\* thread t writes `table`
Wrote(t, table) == arg' = [arg EXCEPT ![Other(t)] = @ \cup {table}]

\* thread t moves to `place`, with `wrong` added to what it has seen
Moves(t, place, wrong) ==
  /\ pc' = [pc EXCEPT ![t] = place]
  /\ out' = [out EXCEPT ![t].seen = @ \cup wrong]

\* if (roots.size() >= n) return;
RootsTest(t) ==
  /\ pc[t] = "roots.test"
  /\ Tested(t, "roots")
  /\ Moves(t, IF Len(roots) >= out[t].n THEN "reverse.test" ELSE "roots.resize", {})
  /\ UNCHANGED <<obj, txt, gen, roots, bit_reverse>>

\* int length = __builtin_ctz(roots.size()); roots.resize(n);
\* resize cuts the vector where the other thread has made it longer than n
RootsResize(t) ==
  /\ pc[t] = "roots.resize"
  /\ roots' = IF Len(roots) >= out[t].n THEN SubSeq(roots, 1, out[t].n)
              ELSE roots \o SubSeq([j \in 1..(out[t].n - Len(roots)) |-> <<0, 0>>],
                                    1, out[t].n - Len(roots))
  /\ Wrote(t, "roots")
  /\ pc' = [pc EXCEPT ![t] = "roots.fill"]
  /\ out' = [out EXCEPT ![t].length = Ctz(Len(roots))]
  /\ UNCHANGED <<obj, txt, gen, bit_reverse>>

\* while (1 << length < n) { ... length++; }: the loop writes the indices from
\* 1 << length to n - 1, past the end of a vector that the other thread has
\* cut
RootsFill(t) ==
  /\ pc[t] = "roots.fill"
  /\ IF prepare_roots_test(out[t].n, out[t]) /\ Len(roots) < out[t].n
     THEN /\ Moves(t, "undefined", {"past_end"})
          /\ UNCHANGED <<arg, roots>>
     ELSE /\ roots' = While("prepare_roots", out[t].n,
                            [length |-> out[t].length, roots |-> roots], 32).roots
          /\ Wrote(t, "roots")
          /\ Moves(t, "reverse.test", {})
  /\ UNCHANGED <<obj, txt, gen, bit_reverse>>

\* a bit_reorder that builds the table again only where it is too short
ReverseStaleShort(table, n) == Len(table) < n

\* bit_reverse.size() != n
ReverseStale(table, n) == Len(table) # n

\* if (bit_reverse.size() != n)
ReverseTest(t) ==
  /\ pc[t] = "reverse.test"
  /\ Tested(t, "bit_reverse")
  /\ Moves(t, IF ReverseStale(bit_reverse, out[t].n) THEN "reverse.assign" ELSE "permute", {})
  /\ UNCHANGED <<obj, txt, gen, roots, bit_reverse>>

\* bit_reverse.assign(n, 0);
ReverseAssign(t) ==
  /\ pc[t] = "reverse.assign"
  /\ bit_reverse' = SubSeq([j \in 1..out[t].n |-> 0], 1, out[t].n)
  /\ Wrote(t, "bit_reverse")
  /\ Moves(t, "reverse.fill", {})
  /\ UNCHANGED <<obj, txt, gen, roots>>

\* for (i = 1; i < n; i++) bit_reverse[i] = ...: every entry is computed from
\* one this loop has written or from bit_reverse[0]; the loop writes past
\* the end of a table that the other thread has assigned shorter
ReverseFill(t) ==
  /\ pc[t] = "reverse.fill"
  /\ IF Len(bit_reverse) < out[t].n
     THEN /\ Moves(t, "undefined", {"past_end"})
          /\ UNCHANGED <<arg, bit_reverse>>
     ELSE /\ bit_reverse' =
               SubSeq([j \in 1..Len(bit_reverse) |->
                         IF j = 1 THEN bit_reverse[1]
                         ELSE IF j <= out[t].n THEN BitReverseAt(j - 1, Ctz(out[t].n))
                         ELSE bit_reverse[j]], 1, Len(bit_reverse))
          /\ Wrote(t, "bit_reverse")
          /\ Moves(t, "permute", {})
  /\ UNCHANGED <<obj, txt, gen, roots>>

\* for (i = 0; i < n; i++) if (i < bit_reverse[i]) swap(values[i],
\* values[bit_reverse[i]]): the loop reads bit_reverse[0] to bit_reverse[n - 1]
\* and the n values at the indices it finds there
Permute(t) ==
  /\ pc[t] = "permute"
  /\ LET n == out[t].n
         short == Len(bit_reverse) < n
         foreign == ~short /\ \E j \in 1..n : bit_reverse[j] # BitReverseAt(j - 1, Ctz(n))
         beyond == ~short /\ \E j \in 1..n : bit_reverse[j] >= n
     IN  Moves(t, IF short \/ beyond THEN "undefined" ELSE "butterfly",
               (IF short \/ beyond THEN {"past_end"} ELSE {})
                 \cup (IF foreign THEN {"another_size"} ELSE {}))
  /\ UNCHANGED <<obj, arg, txt, gen, roots, bit_reverse>>

\* the butterflies read roots[1] to roots[n - 1]; then invert_fft calls
\* fft_iterative(n / 2), or FFT::multiply is done
Butterfly(t) ==
  /\ pc[t] = "butterfly"
  /\ LET n == out[t].n
         short == Len(roots) < n
         unfilled == ~short /\ \E j \in 2..n : roots[j] = <<0, 0>>
     IN  /\ pc' = [pc EXCEPT ![t] = IF short THEN "undefined"
                                    ELSE IF out[t].half THEN "done" ELSE "roots.test"]
         /\ out' = [out EXCEPT
                      ![t].seen = @ \cup (IF short THEN {"past_end"} ELSE {})
                                    \cup (IF unfilled THEN {"another_size"} ELSE {}),
                      ![t].n = IF short \/ out[t].half THEN n ELSE n \div 2,
                      ![t].half = ~short]
  /\ UNCHANGED <<obj, arg, txt, gen, roots, bit_reverse>>

NextRace ==
  \E t \in Threads :
    \/ RootsTest(t) \/ RootsResize(t) \/ RootsFill(t)
    \/ ReverseTest(t) \/ ReverseAssign(t) \/ ReverseFill(t)
    \/ Permute(t) \/ Butterfly(t)

SpecRace == InitRace /\ [][NextRace]_vars

(***************************************************************************)
(* Properties of SpecRace.                                                 *)
(***************************************************************************)
\* C22: nothing keeps a thread out of the tables while the other is in them:
\* a thread reaches the loop that permutes its values by bit_reverse, or the
\* butterflies that read roots, while the other thread has assigned
\* bit_reverse or resized roots for its own size since the first tested
\* them, and it then finds entries of another size or goes past the end of
\* the table.  Every such access comes from the other thread's writes: a
\* thread sees nothing wrong in a table that the other thread was not
\* building when the first tested it and has not written since.
C22_UnguardedCaches ==
  [][\A t \in Threads :
       out'[t].seen # out[t].seen =>
         (IF pc[t] \in {"roots.fill", "butterfly"} THEN "roots" ELSE "bit_reverse")
           \in arg[t]]_vars

\* thread 1 has built the table for its 4096 values and is at the loop that
\* permutes them, and thread 2 has since assigned the table for 2048 and not
\* yet filled it: the loop reads zeros up to bit_reverse[2047] and then
\* past the end
C22_Witness ==
  /\ pc[1] = "permute" /\ pc[2] = "reverse.fill"
  /\ out[1].n = 4096 /\ out[2].n = 2048
  /\ Len(bit_reverse) = 2048
  /\ "bit_reverse" \in arg[1]
  /\ out[1].seen = {}

(***************************************************************************)
(* SpecMul: operator*(const integer &, const integer &) on operands whose  *)
(* sizes lie on both sides of the two cutoffs.  obj and arg are a and b of *)
(* the call in progress, `out` keeps the operands of the first call and    *)
(* the locals, and pc is the place in the function:                        *)
(*   "call"         at its entry                                           *)
(*   "karatsuba.x"  x, z and (a1 + a2) * (b1 + b2) are computed            *)
(*   "karatsuba.z"  x is subtracted                                        *)
(*   "karatsuba.sum" z is subtracted: y is there                           *)
(*   "done"         the product is returned                                *)
(***************************************************************************)
\* n limbs: all BASE - 1 for the filling 0, and for the filling k limbs that
\* go through the values below BASE, zero among them, under a top limb that
\* is not zero
Limbs(n, k) ==
  SubSeq([i \in 1..n |-> IF k = 0 THEN BASE - 1
                         ELSE IF i = n THEN 1 + ((7 * i + k) % (BASE - 1))
                         ELSE (i * i * k + 7 * i + k) % BASE], 1, n)

\* the sizes <<|a|, |b|>>: small ones, those around KARATSUBA_CUTOFF, those
\* around INTEGER_FFT_CUTOFF, and two levels of Karatsuba; with the filling 0
\* the two operands of 751 limbs are equal, and FFT::multiply squares
OperandSizes ==
  {<<1, 1>>, <<1, 2>>, <<2, 1>>, <<2, 3>>, <<3, 3>>, <<1, 150>>, <<151, 2>>,
   <<150, 150>>, <<150, 151>>, <<151, 150>>, <<151, 151>>, <<151, 152>>, <<152, 151>>,
   <<151, 1349>>, <<1349, 151>>, <<151, 1350>>, <<1350, 151>>,
   <<150, 1350>>, <<1350, 150>>, <<150, 1351>>, <<1351, 150>>,
   <<152, 1348>>, <<152, 1349>>, <<301, 301>>, <<750, 750>>, <<751, 750>>, <<750, 751>>,
   <<751, 751>>}

InitMul ==
  /\ txt \in OperandSizes \X (0..MaxFill)
  /\ obj = Limbs(txt[1][1], txt[2])
  /\ arg = Limbs(txt[1][2], IF txt[2] = 0 THEN 0 ELSE txt[2] + 1)
  /\ out = [a |-> obj, b |-> arg, swapped |-> FALSE, path |-> "none", mid |-> 0,
            x |-> <<0>>, z |-> <<0>>, w |-> <<0>>, y |-> <<0>>, res |-> <<0>>]
  /\ gen = 0
  /\ pc = "call"
  /\ roots = InitialRoots
  /\ bit_reverse = <<>>

\* if (n > m) return b * a;
TimesSwap ==
  /\ pc = "call" /\ Len(obj) > Len(arg)
  /\ obj' = arg
  /\ arg' = obj
  /\ out' = [out EXCEPT !.swapped = TRUE]
  /\ UNCHANGED <<txt, gen, pc, roots, bit_reverse>>

\* the FFT branch: FFT::multiply, which leaves its tables grown, and the
\* carry loop
TimesFFTBranch ==
  /\ pc = "call" /\ Len(obj) <= Len(arg)
  /\ TimesPath(Len(obj), Len(arg)) = "fft"
  /\ out' = [out EXCEPT !.path = "fft", !.res = TimesFFT(obj, arg)]
  /\ LET Left(c) == roots' = c[1] /\ bit_reverse' = c[2]
     IN  Left(MultiplyCaches(roots, bit_reverse, Len(obj), Len(arg), obj = arg))
  /\ pc' = "done"
  /\ UNCHANGED <<obj, arg, txt, gen>>

\* the Karatsuba branch up to the three products
KaratsubaSplit ==
  /\ pc = "call" /\ Len(obj) <= Len(arg)
  /\ TimesPath(Len(obj), Len(arg)) = "karatsuba"
  /\ LET Set(p) ==
           /\ out' = [out EXCEPT !.path = "karatsuba", !.mid = p.mid, !.x = p.x.val,
                                 !.z = p.z.val, !.w = p.w.val]
           /\ pc' = IF p.x.ok /\ p.z.ok /\ p.w.ok THEN "karatsuba.x" ELSE "abort"
     IN  Set(KaratsubaProducts(obj, arg))
  /\ UNCHANGED <<obj, arg, txt, gen, roots, bit_reverse>>

\* (a1 + a2) * (b1 + b2) - x, with the assert of operator-=
KaratsubaMinusX ==
  /\ pc = "karatsuba.x"
  /\ LET Set(less) ==
           /\ out' = [out EXCEPT !.y = less.val]
           /\ pc' = IF less.ok THEN "karatsuba.z" ELSE "abort"
     IN  Set(OpMinus(out.w, out.x))
  /\ UNCHANGED <<obj, arg, txt, gen, roots, bit_reverse>>

\* ... - z, with the assert of operator-=
KaratsubaMinusZ ==
  /\ pc = "karatsuba.z"
  /\ LET Set(less) ==
           /\ out' = [out EXCEPT !.y = less.val]
           /\ pc' = IF less.ok THEN "karatsuba.sum" ELSE "abort"
     IN  Set(OpMinus(out.y, out.z))
  /\ UNCHANGED <<obj, arg, txt, gen, roots, bit_reverse>>

\* return (x << 2 * mid) + (y << mid) + z;
KaratsubaSum ==
  /\ pc = "karatsuba.sum"
  /\ out' = [out EXCEPT !.res = OpPlus(OpPlus(OpShl(out.x, 2 * out.mid),
                                              OpShl(out.y, out.mid)), out.z)]
  /\ pc' = "done"
  /\ UNCHANGED <<obj, arg, txt, gen, roots, bit_reverse>>

\* the schoolbook branch
TimesSchoolbookBranch ==
  /\ pc = "call" /\ Len(obj) <= Len(arg)
  /\ TimesPath(Len(obj), Len(arg)) = "schoolbook"
  /\ out' = [out EXCEPT !.path = "schoolbook", !.res = TimesSchoolbook(obj, arg)]
  /\ pc' = "done"
  /\ UNCHANGED <<obj, arg, txt, gen, roots, bit_reverse>>

NextMul ==
  \/ TimesSwap \/ TimesFFTBranch \/ TimesSchoolbookBranch
  \/ KaratsubaSplit \/ KaratsubaMinusX \/ KaratsubaMinusZ \/ KaratsubaSum

SpecMul == InitMul /\ [][NextMul]_vars

C18_KaratsubaSubtractions ==
  /\ pc # "abort"
  /\ pc = "karatsuba.x" =>
       /\ OpGreaterEq(out.w, out.x)
       /\ NatLeq(NatAdd(Value(out.x), Value(out.z)), Value(out.w))
  /\ pc = "karatsuba.z" =>
       /\ OpGreaterEq(out.y, out.z)
       /\ Value(out.y) = NatSub(Value(out.w), Value(out.x))
  /\ pc = "karatsuba.sum" =>
       Value(out.y) = NatSub(NatSub(Value(out.w), Value(out.x)), Value(out.z))
  /\ (pc = "done" /\ out.path = "karatsuba") =>
       /\ out.res = OpPlus(OpPlus(OpShl(out.x, 2 * out.mid), OpShl(out.y, out.mid)), out.z)
       /\ Value(out.res) = NatMul(Value(out.a), Value(out.b))

\* both subtractions are done in a product of 301 by 301 limbs, whose upper
\* halves go through the branch again
C18_Witness ==
  /\ pc = "karatsuba.sum"
  /\ Len(out.a) = 301 /\ out.mid = 150
  /\ out.y # <<0>>

\* C20: with n the smaller and m the larger of the two sizes, the product
\* takes the FFT branch exactly when n > 150 and n + m > 1500, the Karatsuba
\* branch exactly when n > 150 and n + m <= 1500, the schoolbook branch
\* exactly when n <= 150; so a * b and b * a take the same branch.
C20_Dispatch ==
  pc \in {"karatsuba.x", "karatsuba.z", "karatsuba.sum", "done"} =>
    LET n == Min(Len(out.a), Len(out.b))
        m == Max(Len(out.a), Len(out.b))
    IN  /\ out.path = "fft" <=> (n > 150 /\ n + m > 1500)
        /\ out.path = "karatsuba" <=> (n > 150 /\ n + m <= 1500)
        /\ out.path = "schoolbook" <=> n <= 150
        /\ out.swapped <=> Len(out.a) > Len(out.b)

\* 1349 by 151 limbs, 1500 in all: swapped, and still Karatsuba
C20_Witness ==
  /\ pc = "done" /\ out.path = "karatsuba" /\ out.swapped
  /\ Len(out.a) + Len(out.b) = 1500

(***************************************************************************)
(* SpecCalls: the calls of operator* below one product, by the sizes of    *)
(* their operands.  out.a and out.b are the limb counts of a and b of the  *)
(* call in progress, out.depth the number of calls above it and out.levels *)
(* the number of Karatsuba branches among them; a step                     *)
(* takes the call to its return (the FFT and the schoolbook branch have    *)
(* loops only), to b * a, or into one of the three products of the         *)
(* Karatsuba branch, so a behaviour is a path down the tree of calls.  The *)
(* sizes of the operands of the three products follow from range,          *)
(* trim_check and operator+: a.range(mid, n) and b.range(mid, m) hold the  *)
(* top limb, which is not zero, and keep their n - mid and m - mid limbs;  *)
(* a.range(0, mid) and b.range(0, mid) are trimmed to any size from 1 to   *)
(* mid; a sum has the size of its longer operand or one limb more.  The    *)
(* caller waits on nothing, so the call in progress takes its next step:   *)
(* weak fairness of the next-step relation.                                *)
(***************************************************************************)
\* the sizes a window of `width` limbs below the top limb is trimmed to
TrimmedSizes(width) == {1, width \div 2, width - 1, width} \cap (1..width)

\* the sizes of a sum of integers of p and q limbs
SumSizes(p, q) == {Max(p, q), Max(p, q) + 1}

InitCalls ==
  /\ txt \in OperandSizes
  /\ out = [a |-> txt[1], b |-> txt[2], depth |-> 0, levels |-> 0, path |-> "none"]
  /\ obj = <<0>>
  /\ arg = <<0>>
  /\ gen = 0
  /\ pc = "call"
  /\ roots = InitialRoots
  /\ bit_reverse = <<>>

\* if (n > m) return b * a;
CallSwap ==
  /\ pc = "call" /\ out.a > out.b
  /\ out' = [out EXCEPT !.a = out.b, !.b = out.a, !.depth = out.depth + 1]
  /\ UNCHANGED <<obj, arg, txt, gen, pc, roots, bit_reverse>>

\* the FFT branch, which calls FFT::multiply and returns
CallFFT ==
  /\ pc = "call" /\ out.a <= out.b
  /\ TimesPath(out.a, out.b) = "fft"
  /\ out' = [out EXCEPT !.path = "fft"]
  /\ pc' = "done"
  /\ UNCHANGED <<obj, arg, txt, gen, roots, bit_reverse>>

\* the schoolbook branch, which returns after its loops
CallSchoolbook ==
  /\ pc = "call" /\ out.a <= out.b
  /\ TimesPath(out.a, out.b) = "schoolbook"
  /\ out' = [out EXCEPT !.path = "schoolbook"]
  /\ pc' = "done"
  /\ UNCHANGED <<obj, arg, txt, gen, roots, bit_reverse>>

\* thread of control enters a product of the Karatsuba branch whose operands
\* have p and q limbs
Enters(p, q) ==
  /\ out' = [out EXCEPT !.a = p, !.b = q, !.depth = out.depth + 1,
                        !.levels = out.levels + 1, !.path = "karatsuba"]
  /\ UNCHANGED <<obj, arg, txt, gen, pc, roots, bit_reverse>>

\* x = a2 * b2
CallX ==
  /\ pc = "call" /\ out.a <= out.b
  /\ TimesPath(out.a, out.b) = "karatsuba"
  /\ Enters(out.a - KaratsubaMid(out.a), out.b - KaratsubaMid(out.a))

\* z = a1 * b1
CallZ ==
  /\ pc = "call" /\ out.a <= out.b
  /\ TimesPath(out.a, out.b) = "karatsuba"
  /\ \E p, q \in TrimmedSizes(KaratsubaMid(out.a)) : Enters(p, q)

\* (a1 + a2) * (b1 + b2)
CallW ==
  /\ pc = "call" /\ out.a <= out.b
  /\ TimesPath(out.a, out.b) = "karatsuba"
  /\ \E a1, b1 \in TrimmedSizes(KaratsubaMid(out.a)) :
       \E p \in SumSizes(a1, out.a - KaratsubaMid(out.a)) :
         \E q \in SumSizes(b1, out.b - KaratsubaMid(out.a)) : Enters(p, q)

NextCalls == CallSwap \/ CallFFT \/ CallSchoolbook \/ CallX \/ CallZ \/ CallW

SpecCalls == InitCalls /\ [][NextCalls]_vars /\ WF_vars(NextCalls)

(***************************************************************************)
(* Properties of SpecCalls.                                                *)
(***************************************************************************)
\* the step enters one of the three products of a Karatsuba branch
KaratsubaDescent ==
  /\ pc = "call" /\ out.a <= out.b /\ TimesPath(out.a, out.b) = "karatsuba"
  /\ out'.levels = out.levels + 1

\* C23: every product returns.  In the Karatsuba branch (n, the smaller limb
\* count, above 150 and n + m at most 1500) each of a2 * b2, a1 * b1 and
\* (a1 + a2) * (b1 + b2) has a smaller operand of fewer than n limbs and does
\* not take the FFT branch, so at most three Karatsuba branches lie above a
\* call (n is at most 750, then 376, then 189, then 95), each with at most
\* one exchange of the operands, before the schoolbook branch is reached.
C23_MultiplicationTerminates ==
  /\ [][KaratsubaDescent =>
          /\ Min(out'.a, out'.b) < out.a
          /\ TimesPath(Min(out'.a, out'.b), Max(out'.a, out'.b)) # "fft"]_vars
  /\ [](out.levels <= 3 /\ out.depth <= 2 * out.levels + 1)
  /\ <>(pc = "done")

\* two Karatsuba branches deep in a product that takes the Karatsuba branch
\* itself
C23_Witness ==
  /\ pc = "call" /\ out.levels = 2
  /\ out.path = "karatsuba"
  /\ TimesPath(Min(out.a, out.b), Max(out.a, out.b)) = "karatsuba"

(***************************************************************************)
(* SpecSchool: the schoolbook branch of operator*, product by product.     *)
(* obj and arg are a and b (n <= m and n <= KARATSUBA_CUTOFF limbs, as the *)
(* branch is reached), `out` holds index_sum, i, value, carry and the      *)
(* limbs of `product`, and pc is the place in the loops:                   *)
(*   "outer"  before the test of the outer loop                            *)
(*   "inner"  before the test of the inner loop                            *)
(*   "done"   the product is returned                                      *)
(* value and carry are the 64-bit registers, wrapped as the machine wraps  *)
(* them; out.wide is the largest sum the last step formed, before any      *)
(* wrapping.                                                               *)
(***************************************************************************)
\* <<|a|, |b|>>: a few small sizes, and the largest |a| the branch sees
SchoolSizes ==
  {<<1, 1>>, <<1, 3>>, <<2, 2>>, <<2, 3>>, <<3, 3>>, <<KARATSUBA_CUTOFF, KARATSUBA_CUTOFF>>}

InitSchool ==
  /\ txt \in SchoolSizes \X (0..MaxFill)
  /\ obj = Limbs(txt[1][1], txt[2])
  /\ arg = Limbs(txt[1][2], IF txt[2] = 0 THEN 0 ELSE txt[2] + 1)
  /\ out = [index_sum |-> 0, i |-> 0, value |-> <<>>, carry |-> <<>>, wide |-> <<>>,
            values |-> Resize(IntegerOfU64(<<>>), Len(obj) + Len(arg) - 1)]
  /\ gen = 0
  /\ pc = "outer"
  /\ roots = InitialRoots
  /\ bit_reverse = <<>>

\* the last i of the inner loop: min(n - 1, index_sum)
LastOfColumn == Min(Len(obj) - 1, out.index_sum)

\* the product the inner loop is about to add
NextProduct == obj[out.i + 1] * arg[out.index_sum - out.i + 1]

\* value = carry % BASE; carry /= BASE; and the inner loop's int i = ...
ColumnEnter ==
  /\ pc = "outer" /\ SchoolbookTest(obj, arg, out)
  /\ out' = [out EXCEPT !.value = U64ModBase(out.carry), !.carry = U64DivBase(out.carry),
                        !.i = Max(0, out.index_sum - (Len(arg) - 1)),
                        !.wide = out.carry]
  /\ pc' = "inner"
  /\ UNCHANGED <<obj, arg, txt, gen, roots, bit_reverse>>

\* value += a.values[i] * b.values[index_sum - i]; and the reduction
ColumnProduct ==
  /\ pc = "inner" /\ out.i <= LastOfColumn
  /\ LET Set(t, sum) ==
           out' = [out EXCEPT
                     !.i = t.i, !.value = t.value, !.carry = t.carry,
                     !.wide = IF t.carry = out.carry THEN sum
                              ELSE NatAdd(out.carry, U64DivBase(U64Wrap(sum)))]
     IN  Set(SchoolbookInnerStep(obj, arg, out.index_sum, out),
             NatAddInt(out.value, NextProduct))
  /\ UNCHANGED <<obj, arg, txt, gen, pc, roots, bit_reverse>>

\* carry += value / BASE; value %= BASE; product.checked_add(index_sum, value);
ColumnWrite ==
  /\ pc = "inner" /\ out.i > LastOfColumn
  /\ LET Set(t) ==
           out' = [out EXCEPT !.index_sum = t.index_sum, !.carry = t.carry,
                              !.values = t.values, !.value = U64ModBase(out.value),
                              !.wide = NatAdd(out.carry, U64DivBase(out.value))]
     IN  Set(SchoolbookWrite(out.values, out.index_sum, out.value, out.carry))
  /\ pc' = "outer"
  /\ UNCHANGED <<obj, arg, txt, gen, roots, bit_reverse>>

\* product.trim_check(); return product;
SchoolReturn ==
  /\ pc = "outer" /\ ~SchoolbookTest(obj, arg, out)
  /\ out' = [out EXCEPT !.values = trim_check(out.values)]
  /\ pc' = "done"
  /\ UNCHANGED <<obj, arg, txt, gen, roots, bit_reverse>>

NextSchool == ColumnEnter \/ ColumnProduct \/ ColumnWrite \/ SchoolReturn

SpecSchool == InitSchool /\ [][NextSchool]_vars

(***************************************************************************)
(* Properties of SpecSchool.                                               *)
(***************************************************************************)
\* C19: in the schoolbook branch no sum formed in `value` or in `carry`
\* exceeds UINT64_MAX; before each product is added value is at most
\* U64_BOUND; and every limb of the product is below BASE.
C19_AccumulatorsInRange ==
  /\ NatLeq(out.wide, UINT64_MAX)
  /\ NatLeq(out.value, UINT64_MAX) /\ NatLeq(out.carry, UINT64_MAX)
  /\ (pc = "inner" /\ out.i <= LastOfColumn) =>
       /\ NatLeq(out.value, U64_BOUND)
       /\ NatLeq(NatAddInt(out.value, NextProduct), UINT64_MAX)
  /\ \A k \in 1..Len(out.values) : 0 <= out.values[k] /\ out.values[k] < BASE
  /\ pc = "done" => out.values = TimesSchoolbook(obj, arg)

\* the last product of the longest column of 150 by 150 limbs of BASE - 1,
\* about to be added to the 149 before it
C19_Witness ==
  /\ pc = "inner"
  /\ Len(obj) = 150 /\ out.index_sum = 149 /\ out.i = 149
  /\ obj[1] = BASE - 1
  /\ NatLess(NatOfInt(BASE * BASE), out.value)

=============================================================================
